---------------------------- MODULE Spec2Model ----------------------------
(***************************************************************************)
(* A model of get_ga4_data (src/ga4_mcp_server.py): the property check,    *)
(* the dimension/metric list normalizer, the recursive filter compiler,    *)
(* credential acquisition, the backend call and the row flattener, with    *)
(* the GA4PropertyManager and its cache.                                   *)
(*                                                                         *)
(* Text that the code parses (the dimensions and metrics arguments) is a   *)
(* sequence of one-character strings, so json.loads, str.split and         *)
(* str.strip are computed character by character.  Python values are       *)
(* tagged records: [t |-> "str", s |-> chars], [t |-> "list", a |-> seq],  *)
(* [t |-> "obj", m |-> record], ...                                        *)
(***************************************************************************)
EXTENDS Integers, Sequences, FiniteSets, TLC

\* ------------------------------------------------------------------------
\* Python values
\* ------------------------------------------------------------------------
PyNone == [t |-> "None"]
PyTrue == [t |-> "true"]
PyFalse == [t |-> "false"]
PyStr(chars) == [t |-> "str", s |-> chars]
PyInt(digits) == [t |-> "int", d |-> digits]
PyFloat(text) == [t |-> "float", f |-> text]
PyList(items) == [t |-> "list", a |-> items]

\* Field names and literals, spelled out as characters.
date == <<"d", "a", "t", "e">>
city == <<"c", "i", "t", "y">>
totalUsers == <<"t", "o", "t", "a", "l", "U", "s", "e", "r", "s">>
kwTrue == <<"t", "r", "u", "e">>
kwFalse == <<"f", "a", "l", "s", "e">>
kwNull == <<"n", "u", "l", "l">>

\* ------------------------------------------------------------------------
\* str.strip, str.split(','), str()
\* ------------------------------------------------------------------------
\* The whitespace the model's texts use; it is whitespace for json and for
\* str.strip alike.
Whitespace == {" "}
Digits == {"0", "1", "2", "3", "4", "5", "6", "7", "8", "9"}

RECURSIVE LStrip(_)
LStrip(s) ==
    IF s # <<>> /\ Head(s) \in Whitespace THEN LStrip(Tail(s)) ELSE s

RECURSIVE RStrip(_)
RStrip(s) ==
    IF s # <<>> /\ s[Len(s)] \in Whitespace
    THEN RStrip(SubSeq(s, 1, Len(s) - 1))
    ELSE s

\* s.strip()
Strip(s) == RStrip(LStrip(s))

\* s.split(','): the pieces between commas, empty pieces kept.
RECURSIVE SplitFrom(_, _, _)
SplitFrom(s, i, piece) ==
    IF i > Len(s) THEN <<piece>>
    ELSE IF s[i] = "," THEN <<piece>> \o SplitFrom(s, i + 1, <<>>)
    ELSE SplitFrom(s, i + 1, Append(piece, s[i]))

SplitComma(s) == SplitFrom(s, 1, <<>>)

RECURSIVE ReprItems(_)
\* str() of a Python value; a list prints its elements' repr.
RECURSIVE ToStr(_)
ToStr(v) ==
    CASE v.t = "str" -> v.s
      [] v.t = "int" -> v.d
      [] v.t = "float" -> v.f
      [] v.t = "true" -> <<"T", "r", "u", "e">>
      [] v.t = "false" -> <<"F", "a", "l", "s", "e">>
      [] v.t = "None" -> <<"N", "o", "n", "e">>
      [] v.t = "list" -> <<"[">> \o ReprItems(v.a) \o <<"]">>
      [] OTHER -> <<"{", "}">>

ReprItems(items) ==
    IF items = <<>> THEN <<>>
    ELSE LET h == Head(items)
             r == IF h.t = "str" THEN <<"'">> \o h.s \o <<"'">> ELSE ToStr(h)
         IN  IF Len(items) = 1 THEN r
             ELSE r \o <<",", " ">> \o ReprItems(Tail(items))

\* ------------------------------------------------------------------------
\* json.loads on the subset of JSON the texts use: whitespace, strings
\* without escapes, integers, true/false/null and arrays.
\* ------------------------------------------------------------------------
NoValue == [ok |-> FALSE]
Scanned(v, e) == [ok |-> TRUE, val |-> v, end |-> e]

RECURSIVE SkipWs(_, _)
SkipWs(s, i) ==
    IF i <= Len(s) /\ s[i] \in Whitespace THEN SkipWs(s, i + 1) ELSE i

\* s[i:i+len(w)] == w
StartsWith(s, i, w) ==
    /\ i + Len(w) - 1 <= Len(s)
    /\ SubSeq(s, i, i + Len(w) - 1) = w

RECURSIVE FindQuote(_, _)
\* index of the next '"' at or after i, 0 when there is none
FindQuote(s, i) ==
    IF i > Len(s) THEN 0
    ELSE IF s[i] = "\"" THEN i
    ELSE FindQuote(s, i + 1)

RECURSIVE DigitRun(_, _)
\* the index after the run of digits that starts at i
DigitRun(s, i) ==
    IF i <= Len(s) /\ s[i] \in Digits THEN DigitRun(s, i + 1) ELSE i

\* NUMBER_RE: (-?(?:0|[1-9]\d*))(\.\d+)?([eE][-+]?\d+)? matched at i, for
\* texts without a sign; a fraction or an exponent makes a float.
ScanNumber(s, i) ==
    LET intEnd == IF s[i] = "0" THEN i + 1 ELSE DigitRun(s, i)
        fracEnd == IF /\ intEnd < Len(s)
                      /\ s[intEnd] = "."
                      /\ s[intEnd + 1] \in Digits
                   THEN DigitRun(s, intEnd + 1) ELSE intEnd
        expEnd == IF /\ fracEnd < Len(s)
                     /\ s[fracEnd] \in {"e", "E"}
                     /\ s[fracEnd + 1] \in Digits
                  THEN DigitRun(s, fracEnd + 1) ELSE fracEnd
    IN  IF expEnd = intEnd
        THEN Scanned(PyInt(SubSeq(s, i, intEnd - 1)), intEnd)
        ELSE Scanned(PyFloat(SubSeq(s, i, expEnd - 1)), expEnd)

RECURSIVE ScanOnce(_, _)
RECURSIVE ScanArray(_, _, _)
\* json.scanner.py_make_scanner._scan_once
ScanOnce(s, i) ==
    IF i > Len(s) THEN NoValue
    ELSE IF s[i] = "\"" THEN
        LET q == FindQuote(s, i + 1)
        IN  IF q = 0 THEN NoValue
            ELSE Scanned(PyStr(SubSeq(s, i + 1, q - 1)), q + 1)
    ELSE IF s[i] = "[" THEN
        LET j == SkipWs(s, i + 1)
        IN  IF j <= Len(s) /\ s[j] = "]" THEN Scanned(PyList(<<>>), j + 1)
            ELSE ScanArray(s, j, <<>>)
    ELSE IF StartsWith(s, i, kwNull) THEN Scanned(PyNone, i + 4)
    ELSE IF StartsWith(s, i, kwTrue) THEN Scanned(PyTrue, i + 4)
    ELSE IF StartsWith(s, i, kwFalse) THEN Scanned(PyFalse, i + 5)
    ELSE IF s[i] \in Digits THEN ScanNumber(s, i)
    ELSE NoValue

\* json.decoder.JSONArray after the opening bracket: a value, then ']' or a
\* ',' and the next value.
ScanArray(s, i, items) ==
    LET v == ScanOnce(s, i)
    IN  IF ~v.ok THEN NoValue
        ELSE LET j == SkipWs(s, v.end)
             IN  IF j > Len(s) THEN NoValue
                 ELSE IF s[j] = "]"
                      THEN Scanned(PyList(Append(items, v.val)), j + 1)
                 ELSE IF s[j] = ","
                      THEN ScanArray(s, SkipWs(s, j + 1), Append(items, v.val))
                 ELSE NoValue

\* json.loads(s): [ok |-> TRUE, val |-> v], or [ok |-> FALSE] for
\* JSONDecodeError (no value, or text after the value).
JsonLoads(s) ==
    LET v == ScanOnce(s, SkipWs(s, 1))
    IN  IF ~v.ok THEN NoValue
        ELSE IF SkipWs(s, v.end) # Len(s) + 1 THEN NoValue
        ELSE [ok |-> TRUE, val |-> v.val]

\* ------------------------------------------------------------------------
\* The list normalizer of get_ga4_data (dimensions, then metrics)
\* ------------------------------------------------------------------------
\* An exception: the words of str(e) and what its `details` attribute is
\* ("absent", "method": callable, "attribute": present but not callable).
Exc(words, details) == [msg |-> words, details |-> details]
NotIterable == Exc(<<"object", "is", "not", "iterable">>, "absent")

RECURSIVE StripEach(_)
\* [d.strip() for d in pieces]
StripEach(pieces) ==
    IF pieces = <<>> THEN <<>>
    ELSE <<PyStr(Strip(Head(pieces)))>> \o StripEach(Tail(pieces))

RECURSIVE KeepAll(_)
\* KeepNonEmpty without its `if`: [str(d).strip() for d in items]
KeepAll(items) ==
    IF items = <<>> THEN <<>>
    ELSE <<Strip(ToStr(Head(items)))>> \o KeepAll(Tail(items))

RECURSIVE KeepNonEmpty(_)
\* [str(d).strip() for d in items if str(d).strip()]
KeepNonEmpty(items) ==
    IF items = <<>> THEN <<>>
    ELSE LET d == Strip(ToStr(Head(items)))
         IN  IF d = <<>> THEN KeepNonEmpty(Tail(items))
             ELSE <<d>> \o KeepNonEmpty(Tail(items))

\* ParsedArg without the json.loads attempt: a str is always split on commas.
ParsedArgSplitOnly(arg) ==
    IF arg.t = "str" THEN PyList(StripEach(SplitComma(arg.s))) ELSE arg

\* The value that reaches the final comprehension: the argument itself, or
\* for a str argument what json.loads or the comma split gives.
ParsedArg(arg) ==
    IF arg.t = "str"
    THEN LET j == JsonLoads(arg.s)
         IN  IF j.ok
             THEN IF j.val.t = "list" THEN j.val
                  ELSE PyList(<<PyStr(ToStr(j.val))>>)
             ELSE PyList(StripEach(SplitComma(arg.s)))
    ELSE arg

\* Lines 761-769 (dimensions) and 772-780 (metrics): the normalized list, or
\* the TypeError of iterating a value that is not iterable.
NormalizeArg(arg) ==
    LET p == ParsedArg(arg)
    IN  IF p.t = "list" THEN [ok |-> TRUE, list |-> KeepNonEmpty(p.a)]
        ELSE [ok |-> FALSE, exc |-> NotIterable]

\* ------------------------------------------------------------------------
\* Filter specifications: JSON values, with text as a sequence of tokens
\* ------------------------------------------------------------------------
JNull == [t |-> "null"]
JBool(b) == [t |-> "bool", b |-> b]
JNum(n) == [t |-> "num", n |-> n]
JStr(x) == [t |-> "text", x |-> x]
JArr(a) == [t |-> "arr", a |-> a]
JObj(m) == [t |-> "obj", m |-> m]
EmptyMap == [k \in {} |-> JNull]

\* The catalog of dimension names (a part of GA4_DIMENSIONS) and a name that
\* is in no category.
ValidDimensions == {"country", "city", "date"}
MatchTypes ==
    {"EXACT", "BEGINS_WITH", "ENDS_WITH", "CONTAINS", "FULL_REGEXP", "PARTIAL_REGEXP"}

\* What build_filter_expr returns when it fails.
None == [t |-> "None"]

HasKey(v, k) == v.t = "obj" /\ k \in DOMAIN v.m
\* d.get(k, default)
Get(d, k, default) == IF k \in DOMAIN d.m THEN d.m[k] ELSE default
\* `not v`
Falsy(v) ==
    \/ v.t \in {"null", "None"}
    \/ v.t = "bool" /\ ~v.b
    \/ v.t = "num" /\ v.n = 0
    \/ v.t = "text" /\ v.x = ""
    \/ v.t = "arr" /\ v.a = <<>>
    \/ v.t = "obj" /\ DOMAIN v.m = {}
    \/ v.t = "ftext" /\ v.toks = <<>>

AndNode(children) == [t |-> "and_group", expressions |-> children]
OrNode(children) == [t |-> "or_group", expressions |-> children]
NotNode(child) == [t |-> "not_expression", expression |-> child]
StringLeaf(field, value, matchType, caseSensitive) ==
    [t |-> "string_filter", field_name |-> field, value |-> value,
     match_type |-> matchType, case_sensitive |-> caseSensitive]
InListLeaf(field, values, caseSensitive) ==
    [t |-> "in_list_filter", field_name |-> field, values |-> values,
     case_sensitive |-> caseSensitive]

\* BuildStringFilter with match_type_map[...] for match_type_map.get(...):
\* a matchType that is no key of the map raises KeyError.
BuildStringFilterStrict(field, sf) ==
    IF sf.t # "obj" THEN None
    ELSE LET mt == Get(sf, "matchType", JStr("EXACT"))
             value == Get(sf, "value", JStr(""))
             cs == Get(sf, "caseSensitive", JBool(FALSE))
         IN  IF ~(mt.t = "text" /\ mt.x \in MatchTypes) \/ value.t # "text"
                \/ cs.t # "bool"
             THEN None
             ELSE StringLeaf(field, value.x, mt.x, cs.b)

\* Lines 847-867: the string_filter leaf.  A matchType that is no key of
\* match_type_map gives EXACT; one that cannot be hashed, or a value or
\* caseSensitive of the wrong type, raises, which the except turns to None.
BuildStringFilter(field, sf) ==
    IF sf.t # "obj" THEN None
    ELSE LET mt == Get(sf, "matchType", JStr("EXACT"))
             value == Get(sf, "value", JStr(""))
             cs == Get(sf, "caseSensitive", JBool(FALSE))
         IN  IF mt.t \in {"arr", "obj"} \/ value.t # "text" \/ cs.t # "bool"
             THEN None
             ELSE StringLeaf(field, value.x,
                             IF mt.t = "text" /\ mt.x \in MatchTypes
                             THEN mt.x ELSE "EXACT",
                             cs.b)

\* Lines 869-877: the in_list_filter leaf.
BuildInListFilter(field, ilf) ==
    IF ilf.t # "obj" THEN None
    ELSE LET values == Get(ilf, "values", JArr(<<>>))
             cs == Get(ilf, "caseSensitive", JBool(FALSE))
         IN  IF \/ values.t # "arr"
                \/ \E i \in 1..Len(values.a) : values.a[i].t # "text"
                \/ cs.t # "bool"
             THEN None
             ELSE InListLeaf(field, [i \in 1..Len(values.a) |-> values.a[i].x],
                             cs.b)

\* BuildLeaf returning FilterExpression(filter=Filter(field_name=field)) for
\* a leaf with neither matcher: a match on the empty string.
BuildLeafLenient(f) ==
    IF f.t # "obj" THEN None
    ELSE LET field == Get(f, "fieldName", JNull)
         IN  IF Falsy(field) THEN None
             ELSE IF ~(field.t = "text" /\ field.x \in ValidDimensions) THEN None
             ELSE IF HasKey(f, "stringFilter")
                  THEN BuildStringFilter(field.x, f.m["stringFilter"])
             ELSE IF HasKey(f, "inListFilter")
                  THEN BuildInListFilter(field.x, f.m["inListFilter"])
             ELSE StringLeaf(field.x, "", "EXACT", FALSE)

\* Lines 837-877: a node with the key 'filter'.  A leaf with neither matcher
\* falls through to the 'Unrecognized filter structure' return.
BuildLeaf(f) ==
    IF f.t # "obj" THEN None
    ELSE LET field == Get(f, "fieldName", JNull)
         IN  IF Falsy(field) THEN None
             ELSE IF ~(field.t = "text" /\ field.x \in ValidDimensions) THEN None
             ELSE IF HasKey(f, "stringFilter")
                  THEN BuildStringFilter(field.x, f.m["stringFilter"])
             ELSE IF HasKey(f, "inListFilter")
                  THEN BuildInListFilter(field.x, f.m["inListFilter"])
             ELSE None

RECURSIVE build_filter_expr(_)
RECURSIVE BuildExpressions(_, _)
\* What the loop over a group's expressions ends with: the list built, or
\* the `return None` (or the exception) that abandons it.
Built(expressions) == [ok |-> TRUE, list |-> expressions]
Abandoned == [ok |-> FALSE]

RECURSIVE BuildExpressionsSkipping(_, _)
\* BuildExpressions with `continue` for `return None`: an expression that
\* fails is left out of the group.
BuildExpressionsSkipping(es, expressions) ==
    IF es = <<>> THEN Built(expressions)
    ELSE LET built_expr == build_filter_expr(Head(es))
         IN  IF built_expr = None THEN BuildExpressionsSkipping(Tail(es), expressions)
             ELSE BuildExpressionsSkipping(Tail(es), Append(expressions, built_expr))

RECURSIVE BuildExpressionsPrepending(_, _)
\* BuildExpressions with insert(0, ...) for append.
BuildExpressionsPrepending(es, expressions) ==
    IF es = <<>> THEN Built(expressions)
    ELSE LET built_expr == build_filter_expr(Head(es))
         IN  IF built_expr = None THEN Abandoned
             ELSE BuildExpressionsPrepending(Tail(es), <<built_expr>> \o expressions)

\* The loop of lines 814-819 (and 823-828): compile each expression in turn,
\* append it, give up at the first that fails.
BuildExpressions(es, expressions) ==
    IF es = <<>> THEN Built(expressions)
    ELSE LET built_expr == build_filter_expr(Head(es))
         IN  IF built_expr = None THEN Abandoned
             ELSE BuildExpressions(Tail(es), Append(expressions, built_expr))

\* The loop over expr[group]['expressions'].  A missing key or a value that
\* cannot be iterated raises inside the try; iterating a str or a dict
\* yields strings, which do not compile.
BuildGroup(g) ==
    IF ~HasKey(g, "expressions") THEN Abandoned
    ELSE LET es == g.m["expressions"]
         IN  IF es.t = "arr" THEN BuildExpressions(es.a, <<>>)
             ELSE IF es.t = "text" /\ es.x = "" THEN Built(<<>>)
             ELSE IF es.t = "obj" /\ DOMAIN es.m = {} THEN Built(<<>>)
             ELSE Abandoned

\* build_filter_expr with the `if 'filter' in expr` block first.
build_filter_expr_filter_first(expr) ==
    IF expr.t # "obj" THEN None
    ELSE IF HasKey(expr, "filter") THEN BuildLeaf(expr.m["filter"])
    ELSE IF HasKey(expr, "andGroup") THEN
        LET group == BuildGroup(expr.m["andGroup"])
        IN  IF group.ok THEN AndNode(group.list) ELSE None
    ELSE IF HasKey(expr, "orGroup") THEN
        LET group == BuildGroup(expr.m["orGroup"])
        IN  IF group.ok THEN OrNode(group.list) ELSE None
    ELSE IF HasKey(expr, "notExpression") THEN
        LET built_expr == build_filter_expr(expr.m["notExpression"])
        IN  IF built_expr = None THEN None ELSE NotNode(built_expr)
    ELSE None

\* Lines 811-884.  A value that is no dict has no key the code can use: the
\* `in` test raises (number, bool, null), is false four times (list), or
\* the subscript that follows it raises (str); all end in None.
build_filter_expr(expr) ==
    IF expr.t # "obj" THEN None
    ELSE IF HasKey(expr, "andGroup") THEN
        LET group == BuildGroup(expr.m["andGroup"])
        IN  IF group.ok THEN AndNode(group.list) ELSE None
    ELSE IF HasKey(expr, "orGroup") THEN
        LET group == BuildGroup(expr.m["orGroup"])
        IN  IF group.ok THEN OrNode(group.list) ELSE None
    ELSE IF HasKey(expr, "notExpression") THEN
        LET built_expr == build_filter_expr(expr.m["notExpression"])
        IN  IF built_expr = None THEN None ELSE NotNode(built_expr)
    ELSE IF HasKey(expr, "filter") THEN BuildLeaf(expr.m["filter"])
    ELSE None

\* ------------------------------------------------------------------------
\* Filter text: a sequence of JSON tokens, and json.loads / json.dumps on it
\* ------------------------------------------------------------------------
P(c) == [p |-> c]
StrTok(x) == [s |-> x]
LitTok(x) == [lit |-> x]
NumTok(n) == [n |-> n]
FilterText(toks) == [t |-> "ftext", toks |-> toks]

IsStrTok(tok) == DOMAIN tok = {"s"}

RECURSIVE TokValue(_, _)
RECURSIVE TokMembers(_, _, _)
RECURSIVE TokItems(_, _, _)
\* One JSON value starting at token i.
TokValue(toks, i) ==
    IF i > Len(toks) THEN NoValue
    ELSE LET tok == toks[i]
         IN  IF IsStrTok(tok) THEN Scanned(JStr(tok.s), i + 1)
             ELSE IF DOMAIN tok = {"n"} THEN Scanned(JNum(tok.n), i + 1)
             ELSE IF tok = LitTok("true") THEN Scanned(JBool(TRUE), i + 1)
             ELSE IF tok = LitTok("false") THEN Scanned(JBool(FALSE), i + 1)
             ELSE IF tok = LitTok("null") THEN Scanned(JNull, i + 1)
             ELSE IF tok = P("{") THEN
                 IF i < Len(toks) /\ toks[i + 1] = P("}")
                 THEN Scanned(JObj(EmptyMap), i + 2)
                 ELSE TokMembers(toks, i + 1, EmptyMap)
             ELSE IF tok = P("[") THEN
                 IF i < Len(toks) /\ toks[i + 1] = P("]")
                 THEN Scanned(JArr(<<>>), i + 2)
                 ELSE TokItems(toks, i + 1, <<>>)
             ELSE NoValue

\* "key" : value, then '}' or ',' and the next member; a repeated key keeps
\* its last value.
TokMembers(toks, i, m) ==
    IF i + 1 > Len(toks) \/ ~IsStrTok(toks[i]) \/ toks[i + 1] # P(":")
    THEN NoValue
    ELSE LET v == TokValue(toks, i + 2)
         IN  IF ~v.ok \/ v.end > Len(toks) THEN NoValue
             ELSE LET m2 == (toks[i].s :> v.val) @@ m
                  IN  IF toks[v.end] = P("}") THEN Scanned(JObj(m2), v.end + 1)
                      ELSE IF toks[v.end] = P(",")
                           THEN TokMembers(toks, v.end + 1, m2)
                      ELSE NoValue

TokItems(toks, i, items) ==
    LET v == TokValue(toks, i)
    IN  IF ~v.ok \/ v.end > Len(toks) THEN NoValue
        ELSE IF toks[v.end] = P("]")
             THEN Scanned(JArr(Append(items, v.val)), v.end + 1)
        ELSE IF toks[v.end] = P(",")
             THEN TokItems(toks, v.end + 1, Append(items, v.val))
        ELSE NoValue

\* json.loads of a filter text: the value, or not ok for text that is not
\* one JSON value.
JsonLoadsFilter(text) ==
    LET v == TokValue(text.toks, 1)
    IN  IF v.ok /\ v.end = Len(text.toks) + 1
        THEN [ok |-> TRUE, val |-> v.val]
        ELSE NoValue

RECURSIVE JsonDumps(_)
RECURSIVE DumpMembers(_, _)
RECURSIVE DumpItems(_)
\* json.dumps(v) as tokens.
JsonDumps(v) ==
    CASE v.t = "text" -> <<StrTok(v.x)>>
      [] v.t = "num" -> <<NumTok(v.n)>>
      [] v.t = "bool" -> <<LitTok(IF v.b THEN "true" ELSE "false")>>
      [] v.t = "null" -> <<LitTok("null")>>
      [] v.t = "arr" -> <<P("[")>> \o DumpItems(v.a) \o <<P("]")>>
      [] v.t = "obj" -> <<P("{")>> \o DumpMembers(v.m, DOMAIN v.m) \o <<P("}")>>

DumpMembers(m, keys) ==
    IF keys = {} THEN <<>>
    ELSE LET k == CHOOSE x \in keys : TRUE
             one == <<StrTok(k), P(":")>> \o JsonDumps(m[k])
         IN  IF keys = {k} THEN one
             ELSE one \o <<P(",")>> \o DumpMembers(m, keys \ {k})

DumpItems(items) ==
    IF items = <<>> THEN <<>>
    ELSE IF Len(items) = 1 THEN JsonDumps(items[1])
    ELSE JsonDumps(items[1]) \o <<P(",")>> \o DumpItems(Tail(items))

\* ------------------------------------------------------------------------
\* The interpreter's stack
\* ------------------------------------------------------------------------
\* runtime.frames: how deep the calls of build_filter_expr can nest, counted
\* from the call of line 886, before the interpreter raises RecursionError;
\* runtime.nesting: how deep repr (line 791) and json.loads (line 802) can
\* descend into nested containers before they raise it.  One counter or two,
\* and their sizes, are the interpreter's.
Largest(S) == IF S = {} THEN 0 ELSE CHOOSE x \in S : \A y \in S : y <= x
AmpleStack == [frames |-> 1000, nesting |-> 1000]
RecursionError == Exc(<<"maximum", "recursion", "depth", "exceeded">>, "absent")

RECURSIVE Nesting(_)
\* The levels repr and json.loads go through for a value: one for the value
\* and those of what it holds.
Nesting(v) ==
    IF v.t = "obj" THEN 1 + Largest({Nesting(v.m[k]) : k \in DOMAIN v.m})
    ELSE IF v.t = "arr" THEN 1 + Largest({Nesting(v.a[i]) : i \in 1..Len(v.a)})
    ELSE 1

RECURSIVE TreeDepth(_)
TreeDepth(tree) ==
    IF tree.t \in {"and_group", "or_group"}
    THEN 1 + Largest({TreeDepth(tree.expressions[i]) : i \in 1..Len(tree.expressions)})
    ELSE IF tree.t = "not_expression" THEN 1 + TreeDepth(tree.expression)
    ELSE 1

\* json.loads(dimension_filter) on a stack with room for `nesting` levels:
\* RecursionError is an Exception, as a syntax error is (line 803).
JsonLoadsWithin(text, nesting) ==
    LET j == JsonLoadsFilter(text)
    IN  IF j.ok /\ Nesting(j.val) > nesting THEN NoValue ELSE j

\* build_filter_expr(filter_dict) on a stack with room for `frames` nested
\* calls.  Every call that returns a tree returns one node of it, so that
\* the calls nest as deep as the tree; a call there is no room for raises
\* RecursionError inside the try of the call above it, whose except (line
\* 882) returns None, and so does every call above that (lines 817, 826,
\* 833).
BuildWithin(expr, frames) ==
    LET built == build_filter_expr(expr)
    IN  IF built = None THEN None
        ELSE IF TreeDepth(built) > frames THEN None
        ELSE built

\* ------------------------------------------------------------------------
\* GA4PropertyManager and the Admin API behind it
\* ------------------------------------------------------------------------
\* The Admin API as the manager's calls see it: admin.accessible are the
\* ids get_property answers for, admin.summaries the ids
\* list_account_summaries reports, in order, and admin.up says whether its
\* calls return or raise.
PropInfo(id, via) == [t |-> "info", id |-> id, via |-> via]
ErrorDict(e) == [t |-> "obj", m |-> [error |-> e]]
EmptyCache == [id \in {} |-> PropInfo(id, "get")]

\* GA4PropertyManager.__init__
Manager(adminClient) ==
    [t |-> "manager", properties |-> EmptyCache, admin_client |-> adminClient]

\* get_property_info without line 156: the API's answer is returned and not
\* cached.
get_property_info_uncached(pm, adm, property_id) ==
    IF property_id \in DOMAIN pm.properties
    THEN [ret |-> pm.properties[property_id], pm |-> pm]
    ELSE IF ~pm.admin_client
    THEN [ret |-> ErrorDict([kind |-> "AdminClientNotAvailable"]), pm |-> pm]
    ELSE IF adm.up /\ property_id \in adm.accessible
    THEN [ret |-> PropInfo(property_id, "get"), pm |-> pm]
    ELSE [ret |-> ErrorDict([kind |-> "FailedToGetPropertyInfo"]), pm |-> pm]

\* get_property_info: the cached entry; else the API's answer, which is
\* cached; else an error dictionary.
get_property_info(pm, adm, property_id) ==
    IF property_id \in DOMAIN pm.properties
    THEN [ret |-> pm.properties[property_id], pm |-> pm]
    ELSE IF ~pm.admin_client
    THEN [ret |-> ErrorDict([kind |-> "AdminClientNotAvailable"]), pm |-> pm]
    ELSE IF adm.up /\ property_id \in adm.accessible
    THEN LET prop_info == PropInfo(property_id, "get")
         IN  [ret |-> prop_info,
              pm |-> [pm EXCEPT !.properties = (property_id :> prop_info) @@ @]]
    ELSE [ret |-> ErrorDict([kind |-> "FailedToGetPropertyInfo"]), pm |-> pm]

\* validate_property_id taking "cannot check" as valid: True when the manager
\* has no Admin API client.
validate_property_id_unchecked(pm, adm, property_id) ==
    IF property_id \in DOMAIN pm.properties \/ ~pm.admin_client
    THEN [ret |-> TRUE, pm |-> pm]
    ELSE LET r == get_property_info(pm, adm, property_id)
         IN  [ret |-> r.ret.t # "obj", pm |-> r.pm]

\* validate_property_id
validate_property_id(pm, adm, property_id) ==
    IF property_id \in DOMAIN pm.properties
    THEN [ret |-> TRUE, pm |-> pm]
    ELSE LET r == get_property_info(pm, adm, property_id)
         IN  [ret |-> r.ret.t # "obj", pm |-> r.pm]

RECURSIVE CacheAll(_, _)
\* self.properties[prop_id] = prop_info for each summary, in order
CacheAll(cache, ids) ==
    IF ids = <<>> THEN cache
    ELSE CacheAll((Head(ids) :> PropInfo(Head(ids), "summary")) @@ cache, Tail(ids))

\* list_properties
list_properties(pm, adm) ==
    IF ~pm.admin_client
    THEN [ret |-> ErrorDict([kind |-> "AdminClientNotAvailable"]), pm |-> pm]
    ELSE IF adm.up
    THEN [ret |-> PyList([i \in 1..Len(adm.summaries) |->
                            PropInfo(adm.summaries[i], "summary")]),
          pm |-> [pm EXCEPT !.properties = CacheAll(@, adm.summaries)]]
    ELSE [ret |-> ErrorDict([kind |-> "FailedToListProperties"]), pm |-> pm]

\* ------------------------------------------------------------------------
\* Credentials
\* ------------------------------------------------------------------------
\* oauth.token: what token.pickle holds ("absent", "corrupt", "valid",
\* "expired": refreshable, "invalid": not valid and not refreshable);
\* oauth.refresh, oauth.flow: whether the refresh and the browser flow
\* succeed; oauth.client: whether client id and secret are configured;
\* oauth.admin_client, oauth.data_client: whether the API clients can be made.
\* The result: credentials (and the token file as saved), an exception, or
\* sys.exit(1).
get_oauth_credentials(o) ==
    IF o.token = "corrupt"
    THEN [t |-> "raise", exc |-> Exc(<<"unpickling", "error">>, "absent")]
    ELSE IF o.token = "valid" THEN [t |-> "creds", oauth |-> o]
    ELSE IF o.token = "invalid"
    THEN [t |-> "creds", oauth |-> o]
    ELSE IF o.token = "expired" /\ o.refresh
    THEN [t |-> "creds", oauth |-> [o EXCEPT !.token = "valid"]]
    ELSE IF ~o.client THEN [t |-> "exit"]
    ELSE IF o.flow THEN [t |-> "creds", oauth |-> [o EXCEPT !.token = "valid"]]
    ELSE [t |-> "raise", exc |-> Exc(<<"authorization", "failed">>, "absent")]

\* initialize_property_manager: a new manager replaces the global one
\* (config.property_id is never set, so nothing is validated here).
initialize_property_manager(o) == Manager(o.admin_client)

\* ------------------------------------------------------------------------
\* The state of a call of get_ga4_data and of what it works with
\* ------------------------------------------------------------------------
VARIABLES
    args,               \* the arguments of the call
    property_manager,   \* the global property manager, or None
    admin,              \* the Admin API (see get_property_info)
    oauth,              \* the token file and the OAuth configuration
    backend,            \* what client.run_report does with the request
    pc,                 \* where the call is
    valid_property,     \* validate_property_id's answer
    properties,         \* list_properties' answer
    parsed_dimensions,
    parsed_metrics,
    filter_expression,
    request,            \* the RunReportRequest handed to the backend
    result,             \* the rows flattened so far
    outcome,            \* what the call gave its caller
    log,                \* the collaborators and stages used, in order
    previous,           \* what the call before this one gave its caller
    runtime             \* the room the interpreter's stack has left

vars == <<args, property_manager, admin, oauth, backend, pc, valid_property,
          properties, parsed_dimensions, parsed_metrics, filter_expression,
          request, result, outcome, log, previous, runtime>>

\* ------------------------------------------------------------------------
\* The except clause of get_ga4_data
\* ------------------------------------------------------------------------
LowerWord(w) ==
    CASE w = "Property" -> "property"
      [] w = "Not" -> "not"
      [] w = "NOT_FOUND" -> "not_found"
      [] w = "Found" -> "found"
      [] w = "Invalid" -> "invalid"
      [] w = "Resource" -> "resource"
      [] w = "Name" -> "name"
      [] OTHER -> w
\* str(e).lower()
Lower(words) == [i \in 1..Len(words) |-> LowerWord(words[i])]
\* pattern in text
Contains(text, pattern) ==
    \E i \in 1..(Len(text) - Len(pattern) + 1) :
        SubSeq(text, i, i + Len(pattern) - 1) = pattern

Return(v) == [kind |-> "return", value |-> v]
Raise(x) == [kind |-> "raise", exc |-> x]
Running == [kind |-> "running"]

\* ErrorMessage looking for "not found" and "invalid resource".
ErrorMessageShortPatterns(e, property_id) ==
    LET error_str == Lower(e.msg)
    IN  IF \/ Contains(error_str, <<"not", "found">>)
           \/ Contains(error_str, <<"invalid", "resource">>)
        THEN IF property_id = PyNone
             THEN [kind |-> "PropertyIdRequired", details |-> e.details = "method"]
             ELSE [kind |-> "PropertyNotFound", property_id |-> property_id,
                   details |-> e.details = "method"]
        ELSE [kind |-> "ErrorFetching", msg |-> e.msg,
              details |-> e.details = "method"]

\* Lines 918-930: the message, by the patterns found in str(e).lower(), and
\* whether e.details() is appended to it.
ErrorMessage(e, property_id) ==
    LET error_str == Lower(e.msg)
    IN  IF \/ Contains(error_str, <<"property", "not", "found">>)
           \/ Contains(error_str, <<"invalid", "resource", "name">>)
        THEN IF property_id = PyNone
             THEN [kind |-> "PropertyIdRequired", details |-> e.details = "method"]
             ELSE [kind |-> "PropertyNotFound", property_id |-> property_id,
                   details |-> e.details = "method"]
        ELSE [kind |-> "ErrorFetching", msg |-> e.msg,
              details |-> e.details = "method"]

\* HandleException handing back the rows flattened so far with the message.
HandleExceptionWithRows(e, property_id) ==
    IF e.details = "attribute" THEN Raise("TypeError")
    ELSE Return([t |-> "obj",
                 m |-> [error |-> ErrorMessage(e, property_id), rows |-> result]])

\* Lines 917-932: the error dictionary; e.details() on an exception whose
\* `details` is not callable raises out of the handler.
HandleException(e, property_id) ==
    IF e.details = "attribute" THEN Raise("TypeError")
    ELSE Return(ErrorDict(ErrorMessage(e, property_id)))

\* ------------------------------------------------------------------------
\* The row flattener
\* ------------------------------------------------------------------------
Cell(x) == [t |-> "val", v |-> x]
EmptyRow == [h \in {} |-> PyNone]

RECURSIVE AssignCellsShort(_, _, _, _)
\* AssignCells with `i < len(values) - 1`: the last value is taken as missing.
AssignCellsShort(data_row, headers, values, i) ==
    IF i > Len(headers) THEN data_row
    ELSE AssignCellsShort(
            (headers[i] :> (IF i < Len(values) THEN Cell(values[i]) ELSE PyNone))
                @@ data_row,
            headers, values, i + 1)

RECURSIVE AssignCells(_, _, _, _)
\* for i, header in enumerate(headers): data_row[header.name] = values[i].value
\* when i < len(values), None otherwise
AssignCells(data_row, headers, values, i) ==
    IF i > Len(headers) THEN data_row
    ELSE AssignCells(
            (headers[i] :> (IF i <= Len(values) THEN Cell(values[i]) ELSE PyNone))
                @@ data_row,
            headers, values, i + 1)

\* FlattenRow with the two loops in the other order.
FlattenRowMetricsFirst(response, row) ==
    AssignCells(
        AssignCells(EmptyRow, response.metric_headers, row.metric_values, 1),
        response.dimension_headers, row.dimension_values, 1)

\* Lines 904-914: the dimensions first, the metrics second.
FlattenRow(response, row) ==
    AssignCells(
        AssignCells(EmptyRow, response.dimension_headers, row.dimension_values, 1),
        response.metric_headers, row.metric_values, 1)

\* ------------------------------------------------------------------------
\* get_ga4_data
\* ------------------------------------------------------------------------
NoRequest == [t |-> "none"]
NoCall == [t |-> "none"]

\* `property_id is None` in place of `not property_id`
NoPropertyIdNoneOnly(property_id) == property_id = PyNone

\* `not property_id`
NoPropertyId(property_id) ==
    property_id = PyNone \/ (property_id.t = "id" /\ property_id.id = "")

Finish(o) == pc' = "done" /\ outcome' = o

\* Lines 754-755 without `and properties`: the ids of any list, empty or not.
AvailableIdsOfAnyList(props) ==
    IF props.t = "list"
    THEN PyList([i \in 1..Len(props.a) |-> props.a[i].id])
    ELSE PyNone

\* Lines 754-758: the ids the message lists, or None when it lists none.
AvailableIds(props) ==
    IF props.t = "list" /\ props.a # <<>>
    THEN PyList([i \in 1..Len(props.a) |-> props.a[i].id])
    ELSE PyNone

\* Lines 742-758
CheckProperty ==
    /\ pc = "start"
    /\ UNCHANGED <<previous, runtime>>
    /\ UNCHANGED <<args, admin, oauth, backend, parsed_dimensions, parsed_metrics,
                   filter_expression, request, result>>
    /\ IF NoPropertyId(args.property_id)
       THEN /\ Finish(Return(ErrorDict([kind |-> "PropertyIdIsRequired"])))
            /\ UNCHANGED <<property_manager, valid_property, properties, log>>
       ELSE IF property_manager = PyNone
       THEN /\ pc' = "normalize"
            /\ UNCHANGED <<property_manager, valid_property, properties, log, outcome>>
       ELSE LET v == validate_property_id(property_manager, admin, args.property_id.id)
            IN  /\ valid_property' = v.ret
                /\ IF v.ret
                   THEN /\ pc' = "normalize"
                        /\ property_manager' = v.pm
                        /\ log' = Append(log, "validate_property_id")
                        /\ UNCHANGED <<properties, outcome>>
                   ELSE LET l == list_properties(v.pm, admin)
                        IN  /\ property_manager' = l.pm
                            /\ properties' = l.ret
                            /\ log' = log \o <<"validate_property_id", "list_properties">>
                            /\ Finish(Return(ErrorDict(
                                 [kind |-> "InvalidPropertyId",
                                  property_id |-> args.property_id,
                                  available_ids |-> AvailableIds(l.ret)])))

\* Lines 760-786
Normalize ==
    /\ pc = "normalize"
    /\ UNCHANGED <<previous, runtime>>
    /\ UNCHANGED <<args, property_manager, admin, oauth, backend, valid_property,
                   properties, filter_expression, request, result>>
    /\ log' = Append(log, "normalize")
    /\ LET d == NormalizeArg(args.dimensions)
           m == NormalizeArg(args.metrics)
       IN  IF ~d.ok
           THEN /\ Finish(HandleException(d.exc, args.property_id))
                /\ UNCHANGED <<parsed_dimensions, parsed_metrics>>
           ELSE /\ parsed_dimensions' = d.list
                /\ IF ~m.ok
                   THEN /\ Finish(HandleException(m.exc, args.property_id))
                        /\ UNCHANGED parsed_metrics
                   ELSE /\ parsed_metrics' = m.list
                        /\ IF d.list = <<>>
                           THEN Finish(Return(ErrorDict([kind |-> "DimensionsEmpty"])))
                           ELSE IF m.list = <<>>
                           THEN Finish(Return(ErrorDict([kind |-> "MetricsEmpty"])))
                           ELSE pc' = "filter" /\ UNCHANGED outcome

\* CompileFilter with get_authenticated_client() called at line 789, before
\* the filter is looked at.
CompileFilterWithClient ==
    /\ pc = "filter"
    /\ UNCHANGED <<previous, runtime>>
    /\ UNCHANGED <<args, property_manager, admin, oauth, backend, valid_property,
                   properties, parsed_dimensions, parsed_metrics, request, result>>
    /\ LET f == args.dimension_filter
           j == IF f.t = "ftext" THEN JsonLoadsWithin(f, runtime.nesting)
                ELSE [ok |-> TRUE, val |-> f]
           built == BuildWithin(j.val, runtime.frames)
           seen == Append(log, "get_oauth_credentials")
       IN  IF Falsy(f)
           THEN pc' = "auth" /\ log' = seen /\ UNCHANGED <<filter_expression, outcome>>
           ELSE IF f.t \notin {"ftext", "text"} /\ Nesting(f) > runtime.nesting
           THEN /\ Finish(HandleException(RecursionError, args.property_id))
                /\ log' = seen
                /\ UNCHANGED filter_expression
           ELSE IF f.t \notin {"ftext", "text", "obj"}
           THEN /\ Finish(Return(ErrorDict([kind |-> "FilterNotStrOrDict"])))
                /\ log' = seen
                /\ UNCHANGED filter_expression
           ELSE IF f.t = "text" \/ ~j.ok
           THEN /\ Finish(Return(ErrorDict([kind |-> "FilterJsonError"])))
                /\ log' = seen
                /\ UNCHANGED filter_expression
           ELSE /\ log' = Append(seen, "build_filter_expr")
                /\ filter_expression' = built
                /\ IF built = None
                   THEN Finish(Return(ErrorDict([kind |-> "InvalidFilter"])))
                   ELSE pc' = "auth" /\ UNCHANGED outcome

\* Lines 788-888.  The f-string of line 791 takes the repr of every
\* dimension_filter that is not falsy; for a str that is one level.
CompileFilter ==
    /\ pc = "filter"
    /\ UNCHANGED <<previous, runtime>>
    /\ UNCHANGED <<args, property_manager, admin, oauth, backend, valid_property,
                   properties, parsed_dimensions, parsed_metrics, request, result>>
    /\ LET f == args.dimension_filter
           j == IF f.t = "ftext" THEN JsonLoadsWithin(f, runtime.nesting)
                ELSE [ok |-> TRUE, val |-> f]
           built == BuildWithin(j.val, runtime.frames)
       IN  IF Falsy(f)
           THEN pc' = "auth" /\ UNCHANGED <<filter_expression, outcome, log>>
           ELSE IF f.t \notin {"ftext", "text"} /\ Nesting(f) > runtime.nesting
           THEN /\ Finish(HandleException(RecursionError, args.property_id))
                /\ UNCHANGED <<filter_expression, log>>
           ELSE IF f.t \notin {"ftext", "text", "obj"}
           THEN /\ Finish(Return(ErrorDict([kind |-> "FilterNotStrOrDict"])))
                /\ UNCHANGED <<filter_expression, log>>
           ELSE IF f.t = "text" \/ ~j.ok
           THEN /\ Finish(Return(ErrorDict([kind |-> "FilterJsonError"])))
                /\ UNCHANGED <<filter_expression, log>>
           ELSE /\ log' = Append(log, "build_filter_expr")
                /\ filter_expression' = built
                /\ IF built = None
                   THEN Finish(Return(ErrorDict([kind |-> "InvalidFilter"])))
                   ELSE pc' = "auth" /\ UNCHANGED outcome

\* Line 891: get_authenticated_client
Authenticate ==
    /\ pc = "auth"
    /\ UNCHANGED <<previous, runtime>>
    /\ UNCHANGED <<args, admin, backend, valid_property, properties,
                   parsed_dimensions, parsed_metrics, filter_expression, request,
                   result>>
    /\ log' = Append(log, "get_oauth_credentials")
    /\ LET c == get_oauth_credentials(oauth)
       IN  IF c.t = "exit"
           THEN Finish(Raise("SystemExit")) /\ UNCHANGED <<oauth, property_manager>>
           ELSE IF c.t = "raise"
           THEN /\ Finish(HandleException(c.exc, args.property_id))
                /\ UNCHANGED <<oauth, property_manager>>
           ELSE /\ oauth' = c.oauth
                /\ property_manager' = initialize_property_manager(oauth)
                /\ IF oauth.data_client
                   THEN pc' = "request" /\ UNCHANGED outcome
                   ELSE Finish(HandleException(
                            Exc(<<"client", "error">>, "absent"), args.property_id))

\* RunReportRequest with the two dates of the DateRange exchanged.
RunReportRequestDatesSwapped(property_id, dimensions, metrics, start, end, filter) ==
    [t |-> "RunReportRequest",
     property |-> <<"properties", property_id>>,
     dimensions |-> dimensions,
     metrics |-> metrics,
     start_date |-> end,
     end_date |-> start,
     dimension_filter |-> IF filter = None THEN None ELSE filter]

\* Lines 892-900: the request.  property is f"properties/{property_id}";
\* the dimension_filter is the compiled filter, a FilterExpression with one
\* of its fields set and so never falsy, or None.
RunReportRequest(property_id, dimensions, metrics, start, end, filter) ==
    [t |-> "RunReportRequest",
     property |-> <<"properties", property_id>>,
     dimensions |-> dimensions,
     metrics |-> metrics,
     start_date |-> start,
     end_date |-> end,
     dimension_filter |-> IF filter = None THEN None ELSE filter]

\* Lines 892-901
RunReport ==
    /\ pc = "request"
    /\ UNCHANGED <<previous, runtime>>
    /\ UNCHANGED <<args, property_manager, admin, oauth, backend, valid_property,
                   properties, parsed_dimensions, parsed_metrics, filter_expression,
                   result>>
    /\ log' = Append(log, "run_report")
    /\ request' = RunReportRequest(args.property_id.id, parsed_dimensions,
                                   parsed_metrics, args.date_range_start,
                                   args.date_range_end, filter_expression)
    /\ IF backend.t = "error"
       THEN Finish(HandleException(backend.exc, args.property_id))
       ELSE pc' = "flatten" /\ UNCHANGED outcome

\* Flatten with result.insert(0, data_row) for result.append(data_row).
FlattenNewestFirst ==
    /\ pc = "flatten"
    /\ Len(result) < Len(backend.rows)
    /\ UNCHANGED <<previous, runtime>>
    /\ UNCHANGED <<args, property_manager, admin, oauth, backend, valid_property,
                   properties, parsed_dimensions, parsed_metrics, filter_expression,
                   request, log>>
    /\ LET row == backend.rows[Len(result) + 1]
       IN  IF row.t = "broken"
           THEN /\ Finish(HandleException(
                       Exc(<<"bad", "row">>, "absent"), args.property_id))
                /\ UNCHANGED result
           ELSE /\ result' = <<FlattenRow(backend, row)>> \o result
                /\ UNCHANGED <<pc, outcome>>

\* Lines 903-915: one row of the loop
Flatten ==
    /\ pc = "flatten"
    /\ Len(result) < Len(backend.rows)
    /\ UNCHANGED <<previous, runtime>>
    /\ UNCHANGED <<args, property_manager, admin, oauth, backend, valid_property,
                   properties, parsed_dimensions, parsed_metrics, filter_expression,
                   request, log>>
    /\ LET row == backend.rows[Len(result) + 1]
       IN  IF row.t = "broken"
           THEN /\ Finish(HandleException(
                       Exc(<<"bad", "row">>, "absent"), args.property_id))
                /\ UNCHANGED result
           ELSE /\ result' = Append(result, FlattenRow(backend, row))
                /\ UNCHANGED <<pc, outcome>>

\* Line 916
ReturnResult ==
    /\ pc = "flatten"
    /\ Len(result) = Len(backend.rows)
    /\ Finish(Return(PyList(result)))
    /\ UNCHANGED <<previous, runtime>>
    /\ UNCHANGED <<args, property_manager, admin, oauth, backend, valid_property,
                   properties, parsed_dimensions, parsed_metrics, filter_expression,
                   request, result, log>>

Next ==
    \/ CheckProperty
    \/ Normalize
    \/ CompileFilter
    \/ Authenticate
    \/ RunReport
    \/ Flatten
    \/ ReturnResult

\* ------------------------------------------------------------------------
\* The calls and the surroundings the model starts from
\* ------------------------------------------------------------------------
MaxFields == 2
MaxDepth == 2
MaxRows == 2
MaxFrames == 3
MaxNesting == 7

SeqsUpTo(S, n) == UNION {[1..k -> S] : k \in 0..n}

\* Field lists and their three encodings.
FieldNames == {date, city, totalUsers}
NameLists == SeqsUpTo(FieldNames, MaxFields)
Pads == {<<>>, <<" ">>}
Padded(name, l, r) == l \o name \o r

RECURSIVE Join(_, _)
Join(pieces, sep) ==
    IF pieces = <<>> THEN <<>>
    ELSE IF Len(pieces) = 1 THEN pieces[1]
    ELSE pieces[1] \o sep \o Join(Tail(pieces), sep)

NativeList(names, l, r) ==
    PyList([i \in 1..Len(names) |-> PyStr(Padded(names[i], l, r))])
CsvText(names, l, r) ==
    PyStr(Join([i \in 1..Len(names) |-> Padded(names[i], l, r)], <<",">>))
JsonArrayText(names, l, r) ==
    PyStr(l \o <<"[">> \o l
          \o Join([i \in 1..Len(names) |-> <<"\"">> \o r \o names[i] \o l \o <<"\"">>],
                  r \o <<",">> \o l)
          \o r \o <<"]">> \o r)
Encodings(names) ==
    UNION {{NativeList(names, l, r), CsvText(names, l, r), JsonArrayText(names, l, r)} :
           l \in Pads, r \in Pads}

\* Other values a client can pass for dimensions or metrics.
OddFieldArgs ==
    {PyStr(<<" ">>), PyStr(<<",", " ", ",">>), PyStr(<<"\"", "\"">>),
     PyStr(<<"[", "\"", " ", "\"", "]">>), PyList(<<PyStr(<<" ">>), PyStr(<<>>)>>),
     PyStr(<<"\"">> \o date \o <<"\"">>), PyStr(kwTrue), PyStr(<<"7">>),
     PyStr(<<"0", "7">>), PyStr(<<"[", "7", ",", " ">> \o kwNull \o <<"]">>),
     PyStr(<<"[">> \o date), PyList(<<PyInt(<<"7">>), PyTrue>>),
     PyNone, PyInt(<<"5">>)}
FieldArgs == (UNION {Encodings(names) : names \in NameLists}) \cup OddFieldArgs
DefaultDimensions == NativeList(<<date>>, <<>>, <<>>)
DefaultMetrics == NativeList(<<totalUsers>>, <<>>, <<>>)
FewFieldArgs == {DefaultDimensions, DefaultMetrics, PyList(<<>>), PyInt(<<"5">>)}

\* Filter specifications.
Leaf(f) == JObj([filter |-> JObj(f)])
GoodLeaf ==
    Leaf([fieldName |-> JStr("country"), stringFilter |-> JObj([value |-> JStr("US")])])
BadLeaf ==
    Leaf([fieldName |-> JStr("bogus"), stringFilter |-> JObj([value |-> JStr("US")])])
Group(key, es) == JObj((key :> JObj([expressions |-> JArr(es)])))
BaseNodes ==
    {GoodLeaf, BadLeaf,
     Leaf([fieldName |-> JStr("city"),
           inListFilter |-> JObj([values |-> JArr(<<JStr("Oslo"), JStr("Rome")>>),
                                  caseSensitive |-> JBool(TRUE)])]),
     Leaf([fieldName |-> JStr("date"),
           stringFilter |-> JObj([value |-> JStr("2024"), matchType |-> JStr("BEGINS_WITH"),
                                  caseSensitive |-> JBool(TRUE)])]),
     Leaf([fieldName |-> JStr("date"),
           stringFilter |-> JObj([matchType |-> JStr("FUZZY")])]),
     Leaf([stringFilter |-> JObj([value |-> JStr("US")])]),
     Leaf([fieldName |-> JStr(""), stringFilter |-> JObj([value |-> JStr("US")])]),
     Leaf([fieldName |-> JStr("country")]),
     Leaf([fieldName |-> JStr("country"),
           stringFilter |-> JObj([value |-> JStr("US")]),
           inListFilter |-> JObj([values |-> JArr(<<JNum(1)>>)])]),
     JObj(EmptyMap), JObj([foo |-> JNum(1)]),
     JObj([andGroup |-> JObj(EmptyMap)]), JObj([orGroup |-> JArr(<<GoodLeaf>>)]),
     JStr("andGroup"), JNum(5), JArr(<<GoodLeaf>>), JNull,
     JObj([andGroup |-> JObj([expressions |-> JArr(<<GoodLeaf>>)]),
           filter |-> BadLeaf.m.filter]),
     JObj([orGroup |-> JObj([expressions |-> JArr(<<BadLeaf>>)]),
           notExpression |-> GoodLeaf]),
     JObj([notExpression |-> GoodLeaf, filter |-> BadLeaf.m.filter])}
SiblingLeaves == {GoodLeaf, BadLeaf}
Layouts(S) ==
    {<<>>} \cup {<<n>> : n \in S}
           \cup {<<n, l>> : n \in S, l \in SiblingLeaves}
           \cup {<<GoodLeaf, n>> : n \in S}
RECURSIVE FilterSpecs(_)
FilterSpecs(depth) ==
    IF depth = 0 THEN BaseNodes
    ELSE LET S == FilterSpecs(depth - 1)
         IN  S \cup {JObj([notExpression |-> n]) : n \in S}
               \cup {Group(key, es) : key \in {"andGroup", "orGroup"}, es \in Layouts(S)}

BadTexts ==
    {FilterText(<<>>), FilterText(<<P("{")>>),
     FilterText(<<P("{"), StrTok("filter"), P("}")>>)}
FilterArgs ==
    {None} \cup FilterSpecs(MaxDepth)
           \cup {FilterText(JsonDumps(v)) : v \in FilterSpecs(MaxDepth - 1)}
           \cup BadTexts
FewFilterArgs == {None, BadLeaf}

\* Leaves with a stringFilter: every match type name, an unknown one, one in
\* lower case, values that are no names, and each key present or absent.
Absent == [t |-> "absent"]
WithKey(m, k, v) == IF v = Absent THEN m ELSE (k :> v) @@ m
NamedMatchTypes == {JStr(x) : x \in MatchTypes \cup {"FUZZY", "exact", ""}}
StringFilters ==
    {WithKey(WithKey(WithKey(EmptyMap, "matchType", mt), "value", value),
             "caseSensitive", cs) :
        mt \in {Absent, JNum(1), JArr(<<>>)} \cup NamedMatchTypes,
        value \in {Absent, JStr("US"), JStr("")},
        cs \in {Absent, JBool(TRUE), JBool(FALSE)}}
StringFilterLeaves ==
    {JObj([filter |-> JObj([fieldName |-> JStr(field), stringFilter |-> JObj(sf)])]) :
        field \in {"country"}, sf \in StringFilters}
LeafArgs ==
    StringFilterLeaves
        \cup {JObj([notExpression |-> l]) : l \in StringFilterLeaves}
        \cup {FilterText(JsonDumps(l)) : l \in StringFilterLeaves}

\* Nodes with any of the four keys, each over content that compiles or
\* content that does not, and leaves with either matcher, well-formed or not.
CityLeaf ==
    Leaf([fieldName |-> JStr("city"),
          inListFilter |-> JObj([values |-> JArr(<<JStr("Oslo")>>)])])
KeyContents(key) ==
    CASE key = "andGroup" ->
            {JObj([expressions |-> JArr(<<GoodLeaf>>)]),
             JObj([expressions |-> JArr(<<BadLeaf>>)])}
      [] key = "orGroup" ->
            {JObj([expressions |-> JArr(<<CityLeaf>>)]), JNum(1)}
      [] key = "notExpression" -> {CityLeaf, JObj(EmptyMap)}
      [] key = "filter" -> {GoodLeaf.m.filter, BadLeaf.m.filter}
KeyedNodes ==
    {JObj(WithKey(WithKey(WithKey(WithKey(EmptyMap, "andGroup", a), "orGroup", o),
                          "notExpression", n), "filter", f)) :
        a \in {Absent} \cup KeyContents("andGroup"),
        o \in {Absent} \cup KeyContents("orGroup"),
        n \in {Absent} \cup KeyContents("notExpression"),
        f \in {Absent} \cup KeyContents("filter")}
MatcherContents(key) ==
    IF key = "stringFilter"
    THEN {JObj([value |-> JStr("US")]), JObj([value |-> JNum(1)])}
    ELSE {JObj([values |-> JArr(<<JStr("US")>>)]), JObj([values |-> JNum(1)])}
KeyedLeaves ==
    {Leaf(WithKey(WithKey([fieldName |-> JStr("country")], "stringFilter", sf),
                  "inListFilter", ilf)) :
        sf \in {Absent} \cup MatcherContents("stringFilter"),
        ilf \in {Absent} \cup MatcherContents("inListFilter")}
KeyedArgs ==
    LET nodes == KeyedNodes \cup KeyedLeaves
    IN  (nodes \ {JObj(EmptyMap)})
            \cup {JObj([notExpression |-> n]) : n \in nodes}
            \cup {Group("orGroup", <<GoodLeaf, n>>) : n \in nodes}
            \cup {FilterText(JsonDumps(n)) : n \in nodes}

\* Property ids, managers and Admin APIs.
Id(x) == [t |-> "id", id |-> x]
Ids == {"p1", "p2"}
PropertyIds == {PyNone, Id("")} \cup {Id(x) : x \in Ids}
Managers ==
    {PyNone} \cup
    {[t |-> "manager", properties |-> [id \in S |-> PropInfo(id, "summary")],
      admin_client |-> c] : S \in SUBSET Ids, c \in BOOLEAN}
Admins ==
    [accessible : SUBSET Ids,
     summaries : {<<>>, <<"p1">>, <<"p2", "p1">>},
     up : BOOLEAN]
DefaultAdmin == [accessible |-> Ids, summaries |-> <<"p1", "p2">>, up |-> TRUE]

\* Token files and OAuth configurations.
OAuths ==
    [token : {"absent", "corrupt", "valid", "expired", "invalid"},
     refresh : BOOLEAN, client : BOOLEAN, flow : BOOLEAN,
     admin_client : BOOLEAN, data_client : BOOLEAN]
DefaultOAuth ==
    [token |-> "valid", refresh |-> TRUE, client |-> TRUE, flow |-> TRUE,
     admin_client |-> TRUE, data_client |-> TRUE]

\* Backends: a failure, or a response.
ErrorTexts ==
    {<<"404", "Property", "not", "found">>, <<"user", "not", "found">>,
     <<"Invalid", "resource", "name">>, <<"invalid", "resource">>,
     <<"quota", "exceeded">>}
BackendErrors ==
    {[t |-> "error", exc |-> Exc(w, d)] :
        w \in ErrorTexts, d \in {"absent", "method", "attribute"}}
Headers ==
    {<<<<"date">>, <<"totalUsers">>>>, <<<<"date", "city">>, <<"totalUsers">>>>,
     <<<<"date">>, <<"date">>>>, <<<<>>, <<"totalUsers", "newUsers">>>>}
Row(dv, mv) == [t |-> "row", dimension_values |-> dv, metric_values |-> mv]
Rows ==
    {Row(dv, mv) : dv \in {<<>>, <<"20240101">>, <<"20240102">>, <<"20240101", "Oslo">>},
                   mv \in {<<>>, <<"7">>}}
      \cup {[t |-> "broken"]}
Responses ==
    {[t |-> "response", dimension_headers |-> h[1], metric_headers |-> h[2], rows |-> rs] :
        h \in Headers, rs \in SeqsUpTo(Rows, MaxRows)}
DefaultError == [t |-> "error", exc |-> Exc(<<"quota", "exceeded">>, "absent")]
DefaultBackend ==
    [t |-> "response", dimension_headers |-> <<"date">>,
     metric_headers |-> <<"totalUsers">>, rows |-> <<Row(<<"20240101">>, <<"7">>)>>]

Call(p, d, m, f) ==
    [property_id |-> p, dimensions |-> d, metrics |-> m,
     date_range_start |-> "7daysAgo", date_range_end |-> "yesterday",
     dimension_filter |-> f]

\* The client's field lists vary.
InitFields ==
    /\ args \in {Call(Id("p1"), d, m, None) : d \in FieldArgs, m \in FewFieldArgs}
           \cup {Call(Id("p1"), d, m, None) : d \in FewFieldArgs, m \in FieldArgs}
    /\ property_manager = Manager(TRUE)
    /\ admin = DefaultAdmin
    /\ oauth = DefaultOAuth
    /\ backend = DefaultBackend

\* The client's filter varies.
InitFilter ==
    /\ args \in {Call(Id("p1"), DefaultDimensions, DefaultMetrics, f) : f \in FilterArgs}
    /\ property_manager = Manager(TRUE)
    /\ admin = DefaultAdmin
    /\ oauth = DefaultOAuth
    /\ backend = DefaultBackend

\* The client's stringFilter varies.
InitLeaf ==
    /\ args \in {Call(Id("p1"), DefaultDimensions, DefaultMetrics, f) : f \in LeafArgs}
    /\ property_manager = Manager(TRUE)
    /\ admin = DefaultAdmin
    /\ oauth = DefaultOAuth
    /\ backend = DefaultBackend

\* The keys of the client's filter nodes vary.
InitKeys ==
    /\ args \in {Call(Id("p1"), DefaultDimensions, DefaultMetrics, f) : f \in KeyedArgs}
    /\ property_manager = Manager(TRUE)
    /\ admin = DefaultAdmin
    /\ oauth = DefaultOAuth
    /\ backend = DefaultBackend

\* Specifications nested so deep, and stacks with so little room, that the
\* one does not fit the other.
RECURSIVE NotChain(_, _)
NotChain(k, leaf) ==
    IF k = 0 THEN leaf ELSE JObj([notExpression |-> NotChain(k - 1, leaf)])
DeepSpecs ==
    {NotChain(k, leaf) : k \in 0..MaxDepth, leaf \in {GoodLeaf, BadLeaf, JNum(5)}}
        \cup {Group(key, <<GoodLeaf, NotChain(k, GoodLeaf)>>) :
                 key \in {"andGroup", "orGroup"}, k \in 0..MaxDepth - 1}
        \cup {Group("andGroup", <<Group("orGroup", <<GoodLeaf>>)>>),
              Group("andGroup", <<BadLeaf, NotChain(MaxDepth, GoodLeaf)>>),
              JArr(<<JArr(<<JArr(<<JNum(5)>>)>>)>>)}
DeepArgs == DeepSpecs \cup {FilterText(JsonDumps(v)) : v \in DeepSpecs}
\* The stack has room for one leaf at least.
Runtimes == [frames : 1..MaxFrames, nesting : Nesting(GoodLeaf)..MaxNesting]
InitDeep ==
    /\ args \in {Call(Id("p1"), DefaultDimensions, DefaultMetrics, f) : f \in DeepArgs}
    /\ runtime \in Runtimes
    /\ property_manager = Manager(TRUE)
    /\ admin = DefaultAdmin
    /\ oauth = DefaultOAuth
    /\ backend = DefaultBackend

\* The client's date range varies.
Dates == {"7daysAgo", "yesterday", "2024-01-01"}
InitDates ==
    /\ args \in {[Call(Id(p), DefaultDimensions, DefaultMetrics, f)
                     EXCEPT !.date_range_start = start, !.date_range_end = end] :
                  p \in Ids, f \in {None, GoodLeaf}, start \in Dates, end \in Dates}
    /\ property_manager = Manager(TRUE)
    /\ admin = DefaultAdmin
    /\ oauth = DefaultOAuth
    /\ backend = DefaultBackend

\* The property id, the manager and the Admin API vary.
InitProperty ==
    /\ args \in {Call(p, d, DefaultMetrics, f) :
                    p \in PropertyIds, d \in {DefaultDimensions, PyList(<<>>)},
                    f \in FewFilterArgs}
    /\ property_manager \in Managers
    /\ admin \in Admins
    /\ oauth = DefaultOAuth
    /\ backend = DefaultBackend

\* The credentials and the backend vary.
InitBackend ==
    /\ args = Call(Id("p1"), DefaultDimensions, DefaultMetrics, GoodLeaf)
    /\ admin = DefaultAdmin
    /\ \/ /\ oauth \in OAuths
          /\ backend \in {DefaultBackend, DefaultError}
          /\ property_manager \in {PyNone, Manager(TRUE)}
       \/ /\ oauth = DefaultOAuth
          /\ backend \in Responses \cup BackendErrors
          /\ property_manager = Manager(TRUE)

Init ==
    /\ \/ /\ \/ InitFields
             \/ InitFilter
             \/ InitLeaf
             \/ InitKeys
             \/ InitDates
             \/ InitProperty
             \/ InitBackend
          /\ runtime = AmpleStack
       \/ InitDeep
    /\ pc = "start"
    /\ valid_property = FALSE
    /\ properties = PyNone
    /\ parsed_dimensions = <<>>
    /\ parsed_metrics = <<>>
    /\ filter_expression = None
    /\ request = NoRequest
    /\ result = <<>>
    /\ outcome = Running
    /\ log = <<>>
    /\ previous = NoCall

Spec == Init /\ [][Next]_vars

\* The tool is invoked again with the same arguments, after the call before
\* has returned or raised (and the process has not exited): the call starts
\* anew; the global property_manager, the token file, the Admin API and the
\* backend are as the call before left them.
CallAgain ==
    /\ pc = "done"
    /\ previous = NoCall
    /\ outcome # Raise("SystemExit")
    /\ previous' = [t |-> "call", outcome |-> outcome]
    /\ pc' = "start"
    /\ valid_property' = FALSE
    /\ properties' = PyNone
    /\ parsed_dimensions' = <<>>
    /\ parsed_metrics' = <<>>
    /\ filter_expression' = None
    /\ request' = NoRequest
    /\ result' = <<>>
    /\ outcome' = Running
    /\ log' = <<>>
    /\ UNCHANGED <<args, property_manager, admin, oauth, backend, runtime>>

NextAgain ==
    \/ Next
    \/ CallAgain

\* Two calls with the same arguments, one after the other.
SpecAgain == Init /\ [][NextAgain]_vars

\* The tool is invoked again after a call whose dimension_filter was the JSON
\* text of a mapping, this time with that mapping itself (line 805) and the
\* other arguments as before.
CallParsed ==
    /\ pc = "done"
    /\ previous = NoCall
    /\ outcome # Raise("SystemExit")
    /\ args.dimension_filter.t = "ftext"
    /\ LET j == JsonLoadsFilter(args.dimension_filter)
       IN  /\ j.ok
           /\ j.val.t = "obj"
           /\ args' = [args EXCEPT !.dimension_filter = j.val]
    /\ previous' = [t |-> "text", outcome |-> outcome, request |-> request]
    /\ pc' = "start"
    /\ valid_property' = FALSE
    /\ properties' = PyNone
    /\ parsed_dimensions' = <<>>
    /\ parsed_metrics' = <<>>
    /\ filter_expression' = None
    /\ request' = NoRequest
    /\ result' = <<>>
    /\ outcome' = Running
    /\ log' = <<>>
    /\ UNCHANGED <<property_manager, admin, oauth, backend, runtime>>

NextParsed ==
    \/ Next
    \/ CallParsed

\* A call with a filter text, then the call with the mapping it stands for.
SpecParsed == Init /\ [][NextParsed]_vars

\* One GA4PropertyManager, as constructed, and the calls of its three methods
\* in any order while the Admin API's answers change.  `previous` holds the
\* last call: the method, its argument and what it returned, with the cache
\* entry of the argument and the state of the API when it was made, and the
\* ids that calls before it had validated or listed.
InitManager ==
    /\ property_manager \in {Manager(c) : c \in BOOLEAN}
    /\ admin \in Admins
    /\ args = Call(Id("p1"), DefaultDimensions, DefaultMetrics, None)
    /\ oauth = DefaultOAuth
    /\ backend = DefaultBackend
    /\ pc = "manager"
    /\ valid_property = FALSE
    /\ properties = PyNone
    /\ parsed_dimensions = <<>>
    /\ parsed_metrics = <<>>
    /\ filter_expression = None
    /\ request = NoRequest
    /\ result = <<>>
    /\ outcome = Running
    /\ log = <<>>
    /\ previous = NoCall
    /\ runtime = AmpleStack

\* The ids a call has validated or listed, with those known before it.
KnownAfter(call) ==
    IF call = NoCall THEN {}
    ELSE call.known \cup
         (IF call.op = "validate_property_id" /\ call.ret = PyTrue THEN {call.id}
          ELSE IF call.op = "list_properties" /\ call.ret.t = "list"
          THEN {call.ret.a[i].id : i \in 1..Len(call.ret.a)}
          ELSE {})
ManagerCall(op, property_id, ret) ==
    [t |-> "manager", op |-> op, id |-> property_id, ret |-> ret,
     had |-> IF property_id \in DOMAIN property_manager.properties
             THEN property_manager.properties[property_id] ELSE Absent,
     answers |-> admin.up /\ property_id \in admin.accessible,
     known |-> KnownAfter(previous)]
ManagerFrame ==
    UNCHANGED <<args, admin, oauth, backend, pc, valid_property, properties,
                parsed_dimensions, parsed_metrics, filter_expression, request,
                result, outcome, log, runtime>>

\* property_manager.validate_property_id(p)
ManagerValidate ==
    /\ pc = "manager"
    /\ \E p \in Ids :
          LET v == validate_property_id(property_manager, admin, p)
          IN  /\ property_manager' = v.pm
              /\ previous' = ManagerCall("validate_property_id", p,
                                         IF v.ret THEN PyTrue ELSE PyFalse)
    /\ ManagerFrame

\* property_manager.get_property_info(p)
ManagerGetInfo ==
    /\ pc = "manager"
    /\ \E p \in Ids :
          LET r == get_property_info(property_manager, admin, p)
          IN  /\ property_manager' = r.pm
              /\ previous' = ManagerCall("get_property_info", p, r.ret)
    /\ ManagerFrame

\* property_manager.list_properties()
ManagerList ==
    /\ pc = "manager"
    /\ LET l == list_properties(property_manager, admin)
       IN  /\ property_manager' = l.pm
           /\ previous' = ManagerCall("list_properties", "", l.ret)
    /\ ManagerFrame

\* Between two calls the Admin API goes down or comes back, and properties
\* are created, deleted, shared or withdrawn.
AdminChanges ==
    /\ pc = "manager"
    /\ admin' \in Admins \ {admin}
    /\ UNCHANGED <<args, property_manager, oauth, backend, pc, valid_property,
                   properties, parsed_dimensions, parsed_metrics,
                   filter_expression, request, result, outcome, log, previous,
                   runtime>>

NextManager ==
    \/ ManagerValidate
    \/ ManagerGetInfo
    \/ ManagerList
    \/ AdminChanges

SpecManager == InitManager /\ [][NextManager]_vars

\* ------------------------------------------------------------------------
\* Properties
\* ------------------------------------------------------------------------
Logged(op) == \E i \in 1..Len(log) : log[i] = op
ReturnedError(kind) ==
    /\ pc = "done"
    /\ outcome.kind = "return"
    /\ outcome.value.t = "obj"
    /\ outcome.value.m.error.kind = kind

\* The filter specification the call was given: the mapping, or what the
\* text stands for.
SuppliedSpec ==
    LET f == args.dimension_filter
    IN  IF f.t = "ftext"
        THEN LET j == JsonLoadsFilter(f) IN IF j.ok THEN j.val ELSE JNull
        ELSE f

RecognizedKeys == {"andGroup", "orGroup", "notExpression", "filter"}
\* The expressions list under a group key, empty when there is none.
ChildrenOf(v, key) ==
    IF /\ HasKey(v, key)
       /\ HasKey(v.m[key], "expressions")
       /\ v.m[key].m["expressions"].t = "arr"
    THEN v.m[key].m["expressions"].a
    ELSE <<>>

RECURSIVE OneKeyed(_)
\* Every node of the specification carries at most one of the four keys (a
\* FilterExpression is a union of them).
OneKeyed(v) ==
    v.t = "obj" =>
        /\ Cardinality(DOMAIN v.m \cap RecognizedKeys) <= 1
        /\ \A key \in {"andGroup", "orGroup"} :
              \A i \in 1..Len(ChildrenOf(v, key)) : OneKeyed(ChildrenOf(v, key)[i])
        /\ HasKey(v, "notExpression") => OneKeyed(v.m["notExpression"])

\* A leaf whose fieldName is absent or is no dimension of the catalog.
LeafFieldBad(f) ==
    /\ f.t = "obj"
    /\ \/ ~HasKey(f, "fieldName")
       \/ ~(f.m["fieldName"].t = "text" /\ f.m["fieldName"].x \in ValidDimensions)

RECURSIVE HasBadLeaf(_)
\* Some leaf of the specification, at any depth, is such a leaf.
HasBadLeaf(v) ==
    /\ v.t = "obj"
    /\ \/ HasKey(v, "filter") /\ LeafFieldBad(v.m["filter"])
       \/ \E key \in {"andGroup", "orGroup"} :
             \E i \in 1..Len(ChildrenOf(v, key)) : HasBadLeaf(ChildrenOf(v, key)[i])
       \/ HasKey(v, "notExpression") /\ HasBadLeaf(v.m["notExpression"])

RECURSIVE LeavesInCatalog(_)
\* Every leaf of a compiled filter tree names a dimension of the catalog.
LeavesInCatalog(tree) ==
    IF tree.t \in {"and_group", "or_group"}
    THEN \A i \in 1..Len(tree.expressions) : LeavesInCatalog(tree.expressions[i])
    ELSE IF tree.t = "not_expression" THEN LeavesInCatalog(tree.expression)
    ELSE tree.field_name \in ValidDimensions

\* C1: a filter specification (each node carrying one of the four keys) with
\* a leaf, at any depth, whose fieldName is absent or not in the dimension
\* catalog never yields a filter tree or a request, and the call that
\* compiles it returns the invalid-filter error; every leaf of a filter tree
\* placed in a request has its field in the catalog.
C1_AllOrNothing ==
    /\ (OneKeyed(SuppliedSpec) /\ HasBadLeaf(SuppliedSpec)) =>
          /\ filter_expression = None
          /\ request = NoRequest
          /\ pc \notin {"auth", "request", "flatten"}
          /\ Logged("build_filter_expr") => ReturnedError("InvalidFilter")
    /\ (request # NoRequest /\ request.dimension_filter # None) =>
          LeavesInCatalog(request.dimension_filter)

\* A bad leaf two levels down, beside valid leaves, and the call has ended
\* with the invalid-filter error.
C1_Witness ==
    /\ args.dimension_filter =
          Group("andGroup", <<Group("orGroup", <<GoodLeaf, BadLeaf>>), GoodLeaf>>)
    /\ ReturnedError("InvalidFilter")
    /\ request = NoRequest

\* Every list of names with each of its encodings: the native sequence, the
\* JSON array text and the comma-separated text, with and without blanks.
EncodedLists ==
    UNION {{<<e, names>> : e \in Encodings(names)} : names \in NameLists}

\* C2: a list of field names given as the native sequence, as its JSON array
\* text or as its comma-separated text, with whitespace around the elements,
\* normalizes to that same list, for dimensions and for metrics.
C2_SameListFromEveryEncoding ==
    Logged("normalize") =>
        \A p \in EncodedLists :
            /\ args.dimensions = p[1] => parsed_dimensions = p[2]
            /\ (args.metrics = p[1] /\ args.dimensions.t \in {"str", "list"}) =>
                  parsed_metrics = p[2]

\* The comma-separated text " date , city " gave the list date, city.
C2_Witness ==
    /\ args.dimensions = CsvText(<<date, city>>, <<" ">>, <<" ">>)
    /\ parsed_dimensions = <<date, city>>
    /\ pc = "done"

\* An empty string, an empty list, or a list of whitespace-only strings.
IsEmptyArg(arg) ==
    \/ arg = PyStr(<<>>)
    \/ /\ arg.t = "list"
       /\ \A i \in 1..Len(arg.a) :
             /\ arg.a[i].t = "str"
             /\ \A j \in 1..Len(arg.a[i].s) : arg.a[i].s[j] \in Whitespace

Trimmed(name) ==
    /\ name # <<>>
    /\ name[1] \notin Whitespace
    /\ name[Len(name)] \notin Whitespace

\* C3: normalizing an empty string, an empty list or a list of
\* whitespace-only strings ends the call with the EmptyList error of that
\* argument; both field lists of every request are non-empty lists of
\* trimmed, non-empty names.
C3_EmptyListRejected ==
    /\ (/\ Logged("normalize")
        /\ args.dimensions.t \in {"str", "list"}
        /\ args.metrics.t \in {"str", "list"}) =>
          /\ IsEmptyArg(args.dimensions) => ReturnedError("DimensionsEmpty")
          /\ (IsEmptyArg(args.metrics) /\ parsed_dimensions # <<>>) =>
                ReturnedError("MetricsEmpty")
    /\ request # NoRequest =>
          /\ Len(request.dimensions) >= 1
          /\ Len(request.metrics) >= 1
          /\ \A i \in 1..Len(request.dimensions) : Trimmed(request.dimensions[i])
          /\ \A i \in 1..Len(request.metrics) : Trimmed(request.metrics[i])

\* A list of whitespace-only strings was refused.
C3_Witness ==
    /\ args.metrics = PyList(<<PyStr(<<" ">>), PyStr(<<>>)>>)
    /\ ReturnedError("MetricsEmpty")

\* C4 (as the specification states it): every call that ends gives its
\* caller a value; none raises out of the tool or ends the process.
C4_AlwaysReturnsAValue == pc = "done" => outcome.kind = "return"

\* C5 (as the specification states it): for a filter mapping with none of
\* the four keys no request is made, and the call that gets as far as the
\* filter returns the invalid-filter error.
C5_EmptySpecificationFails ==
    (/\ args.dimension_filter.t = "obj"
     /\ DOMAIN args.dimension_filter.m \cap RecognizedKeys = {}) =>
        /\ request = NoRequest
        /\ (pc = "done" /\ parsed_dimensions # <<>> /\ parsed_metrics # <<>>) =>
              ReturnedError("InvalidFilter")

ErrorFields == {"kind", "msg", "details", "property_id", "available_ids"}

\* C6: what a call returns is either the list of all the rows of the
\* response, flattened, or a mapping whose only key is the error message;
\* rows flattened, field lists and filter trees built before a failure are
\* not in it.
C6_DataOrErrorNeverBoth ==
    outcome.kind = "return" =>
        \/ /\ outcome.value.t = "list"
           /\ backend.t = "response"
           /\ outcome.value.a = [i \in 1..Len(backend.rows) |->
                                    FlattenRow(backend, backend.rows[i])]
        \/ /\ outcome.value.t = "obj"
           /\ DOMAIN outcome.value.m = {"error"}
           /\ DOMAIN outcome.value.m.error \subseteq ErrorFields

\* A row fails after an earlier one was flattened, with a filter tree built.
C6_Witness ==
    /\ pc = "done"
    /\ Len(result) >= 1
    /\ filter_expression # None
    /\ outcome.kind = "return"
    /\ outcome.value.t = "obj"

\* C7: with no property id (None or the empty string) the call returns the
\* property-id-is-required error whatever the other arguments are, and has
\* used neither the property manager, the normalizer, the filter compiler,
\* the credentials nor the backend.
C7_MissingPropertyFirst ==
    ((args.property_id = PyNone \/ args.property_id = Id("")) /\ pc # "start") =>
        /\ ReturnedError("PropertyIdIsRequired")
        /\ log = <<>>
        /\ request = NoRequest
        /\ parsed_dimensions = <<>>
        /\ parsed_metrics = <<>>
        /\ filter_expression = None

\* The empty id, with a manager in place and arguments that would fail later.
C7_Witness ==
    /\ args.property_id = Id("")
    /\ property_manager # PyNone
    /\ args.dimensions = PyList(<<>>)
    /\ args.dimension_filter = BadLeaf
    /\ ReturnedError("PropertyIdIsRequired")

\* The manager does not know the id: it is not cached, and the Admin API
\* cannot be asked or does not answer for it.
NotKnown(pm, adm, id) ==
    /\ id \notin DOMAIN pm.properties
    /\ ~(pm.admin_client /\ adm.up /\ id \in adm.accessible)

\* C8: a call with a non-empty property id that the property manager does
\* not know ends at once with the invalid-property-id error naming that id,
\* and no call that ended so has made a request or used the backend.
C8_UnknownPropertyRefused ==
    /\ [][(/\ pc = "start"
           /\ args.property_id # PyNone
           /\ args.property_id # Id("")
           /\ property_manager # PyNone
           /\ NotKnown(property_manager, admin, args.property_id.id)) =>
             (/\ pc' = "done"
              /\ outcome'.kind = "return"
              /\ outcome'.value.t = "obj"
              /\ outcome'.value.m.error.kind = "InvalidPropertyId"
              /\ outcome'.value.m.error.property_id = args.property_id
              /\ request' = NoRequest)]_vars
    /\ [](ReturnedError("InvalidPropertyId") =>
             (request = NoRequest /\ ~Logged("run_report")
                /\ ~Logged("get_oauth_credentials")))

\* An id the Admin API does not answer for was refused.
C8_Witness ==
    /\ args.property_id = Id("p2")
    /\ "p2" \notin admin.accessible
    /\ property_manager # PyNone
    /\ property_manager.admin_client
    /\ ReturnedError("InvalidPropertyId")
    /\ log = <<"validate_property_id", "list_properties">>

\* C9: when validation fails, the error lists ids exactly when
\* list_properties gave a non-empty list, and then lists the ids of that
\* list in its order (the Admin API's account summaries); when it gave an
\* error or an empty list the error lists none.
C9_IdsListedWhenListed ==
    Logged("list_properties") =>
        /\ ReturnedError("InvalidPropertyId")
        /\ LET listed == outcome.value.m.error.available_ids
           IN  /\ listed # PyNone <=> (properties.t = "list" /\ properties.a # <<>>)
               /\ listed # PyNone =>
                     /\ Len(listed.a) = Len(properties.a)
                     /\ \A i \in 1..Len(listed.a) : listed.a[i] = properties.a[i].id
                     /\ listed.a = admin.summaries

\* Two ids were listed, in the order the Admin API reported them.
C9_Witness ==
    /\ ReturnedError("InvalidPropertyId")
    /\ outcome.value.m.error.available_ids = PyList(<<"p2", "p1">>)

GroupTag(key) == IF key = "andGroup" THEN "and_group" ELSE "or_group"
\* The node is compiled as a group of `key`: it has the key with a list of
\* expressions (andGroup is looked at before orGroup).
IsGroupNode(v, key) ==
    /\ HasKey(v, key)
    /\ HasKey(v.m[key], "expressions")
    /\ v.m[key].m["expressions"].t = "arr"
    /\ key = "orGroup" => ~HasKey(v, "andGroup")

RECURSIVE GroupsInOrder(_, _)
\* In the specification v, compiled as b: every group whose expressions all
\* compile is an And (an Or) with the compiled expressions as its children,
\* one each, in order.
GroupsInOrder(v, b) ==
    v.t = "obj" =>
        /\ \A key \in {"andGroup", "orGroup"} :
              LET es == ChildrenOf(v, key)
              IN  /\ (/\ IsGroupNode(v, key)
                      /\ \A i \in 1..Len(es) : build_filter_expr(es[i]) # None) =>
                         /\ b # None
                         /\ b.t = GroupTag(key)
                         /\ Len(b.expressions) = Len(es)
                         /\ \A i \in 1..Len(es) :
                               b.expressions[i] = build_filter_expr(es[i])
                  /\ \A i \in 1..Len(es) :
                        GroupsInOrder(es[i], build_filter_expr(es[i]))
        /\ HasKey(v, "notExpression") =>
              GroupsInOrder(v.m["notExpression"],
                            build_filter_expr(v.m["notExpression"]))

\* The stack has room for the calls that compile the specification.
FitsStack ==
    LET built == build_filter_expr(SuppliedSpec)
    IN  built # None => TreeDepth(built) <= runtime.frames

\* C10: an andGroup (orGroup) node whose expressions all compile is compiled
\* to an And (Or) node with one child per expression, the compilation of
\* that expression, in the original order; at every depth of the filter the
\* call compiled, on a stack with room for it.
C10_GroupChildrenInOrder ==
    (Logged("build_filter_expr") /\ FitsStack) =>
        GroupsInOrder(SuppliedSpec, filter_expression)

\* An Or group and a leaf under an And group, compiled in that order.
C10_Witness ==
    /\ args.dimension_filter =
          Group("andGroup", <<Group("orGroup", <<GoodLeaf, GoodLeaf>>), GoodLeaf>>)
    /\ filter_expression.t = "and_group"
    /\ Len(filter_expression.expressions) = 2
    /\ filter_expression.expressions[1].t = "or_group"
    /\ filter_expression.expressions[2].t = "string_filter"
    /\ request # NoRequest

RECURSIVE GroupsNonEmpty(_)
\* Every And and every Or of a compiled filter tree has a child.
GroupsNonEmpty(tree) ==
    IF tree.t \in {"and_group", "or_group"}
    THEN /\ tree.expressions # <<>>
         /\ \A i \in 1..Len(tree.expressions) : GroupsNonEmpty(tree.expressions[i])
    ELSE tree.t = "not_expression" => GroupsNonEmpty(tree.expression)

RECURSIVE HasEmptyGroup(_)
\* Some andGroup or orGroup of the specification has an empty expressions
\* list.
HasEmptyGroup(v) ==
    /\ v.t = "obj"
    /\ \/ \E key \in {"andGroup", "orGroup"} :
             \/ /\ HasKey(v, key)
                /\ HasKey(v.m[key], "expressions")
                /\ v.m[key].m["expressions"] = JArr(<<>>)
             \/ \E i \in 1..Len(ChildrenOf(v, key)) : HasEmptyGroup(ChildrenOf(v, key)[i])
       \/ HasKey(v, "notExpression") /\ HasEmptyGroup(v.m["notExpression"])

\* C11 (as the specification states it): every And and every Or of a filter
\* tree the compiler returns has at least one child, and a specification
\* with an andGroup or orGroup whose expressions list is empty yields no
\* tree.
C11_GroupsHaveChildren ==
    /\ filter_expression # None => GroupsNonEmpty(filter_expression)
    /\ (Logged("build_filter_expr") /\ OneKeyed(SuppliedSpec)
          /\ HasEmptyGroup(SuppliedSpec)) => filter_expression = None

\* The StringMatch the specification describes for the stringFilter sf of a
\* leaf on `field`: the named match type or EXACT, the value or the empty
\* string, caseSensitive or false.
StringMatchOf(field, sf) ==
    [t |-> "string_filter",
     field_name |-> field,
     value |-> IF "value" \in DOMAIN sf.m THEN sf.m["value"].x ELSE "",
     match_type |-> IF "matchType" \in DOMAIN sf.m
                       /\ sf.m["matchType"] \in {JStr(x) : x \in MatchTypes}
                    THEN sf.m["matchType"].x ELSE "EXACT",
     case_sensitive |-> IF "caseSensitive" \in DOMAIN sf.m
                        THEN sf.m["caseSensitive"].b ELSE FALSE]

\* A 'filter' node on a catalog dimension whose stringFilter has, where it
\* has them, a name for matchType, a string for value and a boolean for
\* caseSensitive.
IsStringFilterLeaf(v) ==
    /\ v.t = "obj"
    /\ DOMAIN v.m \cap RecognizedKeys = {"filter"}
    /\ v.m["filter"].t = "obj"
    /\ HasKey(v.m["filter"], "fieldName")
    /\ ~LeafFieldBad(v.m["filter"])
    /\ HasKey(v.m["filter"], "stringFilter")
    /\ LET sf == v.m["filter"].m["stringFilter"]
       IN  /\ sf.t = "obj"
           /\ "matchType" \in DOMAIN sf.m => sf.m["matchType"].t = "text"
           /\ "value" \in DOMAIN sf.m => sf.m["value"].t = "text"
           /\ "caseSensitive" \in DOMAIN sf.m => sf.m["caseSensitive"].t = "bool"

RECURSIVE StringLeavesAsSpecified(_, _)
\* In the specification v, compiled as the tree b: every such leaf is
\* compiled to the StringMatch described.
StringLeavesAsSpecified(v, b) ==
    IF IsStringFilterLeaf(v)
    THEN b = StringMatchOf(v.m["filter"].m["fieldName"].x,
                           v.m["filter"].m["stringFilter"])
    ELSE IF b = None THEN TRUE
    ELSE IF b.t \in {"and_group", "or_group"}
    THEN LET es == ChildrenOf(v, IF b.t = "and_group" THEN "andGroup" ELSE "orGroup")
         IN  \A i \in 1..Len(b.expressions) :
                 i <= Len(es) /\ StringLeavesAsSpecified(es[i], b.expressions[i])
    ELSE b.t = "not_expression" =>
            StringLeavesAsSpecified(v.m["notExpression"], b.expression)

\* C12: a leaf with a stringFilter compiles to a string match with the
\* match type named (one of the six names), EXACT when the name is absent or
\* is none of the six, the value given or else the empty string, and
\* caseSensitive as given or else false; as the whole filter and inside
\* groups and negations.
C12_StringFilterDefaults ==
    Logged("build_filter_expr") =>
        StringLeavesAsSpecified(SuppliedSpec, filter_expression)

\* A stringFilter with an unknown match type and nothing else came out as
\* EXACT, empty value, not case sensitive, and went into the request.
C12_Witness ==
    /\ args.dimension_filter =
          JObj([filter |-> JObj([fieldName |-> JStr("country"),
                                 stringFilter |-> JObj([matchType |-> JStr("FUZZY")])])])
    /\ request # NoRequest
    /\ request.dimension_filter = StringLeaf("country", "", "EXACT", FALSE)

\* The headers of a response in the order the flattener goes through them,
\* and for the k-th of them the entry the row has for it: its value, or null
\* when the row's value list is too short.
HeaderSeq(response) == response.dimension_headers \o response.metric_headers
EntryAt(response, row, k) ==
    LET nd == Len(response.dimension_headers)
    IN  IF k <= nd
        THEN IF k <= Len(row.dimension_values)
             THEN Cell(row.dimension_values[k]) ELSE PyNone
        ELSE IF k - nd <= Len(row.metric_values)
             THEN Cell(row.metric_values[k - nd]) ELSE PyNone

\* The flattened row has every header name as a key and no other, and under
\* each header (the last one, where a name occurs twice) that header's entry.
RowAsSpecified(flat, response, row) ==
    LET hs == HeaderSeq(response)
    IN  /\ DOMAIN flat = {hs[k] : k \in 1..Len(hs)}
        /\ \A k \in 1..Len(hs) :
              (\A k2 \in (k + 1)..Len(hs) : hs[k2] # hs[k]) =>
                  flat[hs[k]] = EntryAt(response, row, k)

\* C13: in every flattened row, every header name is a key, and header i
\* maps to value i of the row when the row has one and to null when its
\* value list is shorter (dimension headers against dimension values, metric
\* headers against metric values; where two headers share a name, the later
\* one's entry).
C13_HeaderToValueOrNull ==
    backend.t = "response" =>
        \A r \in 1..Len(result) : RowAsSpecified(result[r], backend, backend.rows[r])

\* A row with one value under the headers date, city: city is null.
C13_Witness ==
    /\ backend.t = "response"
    /\ backend.dimension_headers = <<"date", "city">>
    /\ Len(result) >= 1
    /\ backend.rows[1].dimension_values = <<"20240101">>
    /\ result[1]["date"] = Cell("20240101")
    /\ result[1]["city"] = PyNone
    /\ result[1]["totalUsers"] = Cell("7")

\* C14: the rows returned are one per row of the response, in the order of
\* the response, repeated rows repeated; the loop only ever appends the
\* flattening of the next row, which is determined by that row and the
\* headers, and leaves the rows before it as they are.
C14_OneRowPerRowInOrder ==
    /\ [][(pc = "flatten" /\ pc' = "flatten") =>
             (/\ Len(result') = Len(result) + 1
              /\ SubSeq(result', 1, Len(result)) = result
              /\ RowAsSpecified(result'[Len(result')], backend,
                                backend.rows[Len(result')]))]_vars
    /\ []((pc = "done" /\ outcome.kind = "return" /\ outcome.value.t = "list") =>
             (/\ Len(outcome.value.a) = Len(backend.rows)
              /\ \A r \in 1..Len(backend.rows) :
                    RowAsSpecified(outcome.value.a[r], backend, backend.rows[r])))

\* Two rows returned in the order received, the later date first.
C14_Witness ==
    /\ pc = "done"
    /\ outcome.kind = "return"
    /\ outcome.value.t = "list"
    /\ Len(outcome.value.a) = 2
    /\ backend.dimension_headers = <<"date">>
    /\ backend.rows[1].dimension_values = <<"20240102">>
    /\ backend.rows[2].dimension_values = <<"20240101">>
    /\ outcome.value.a[1]["date"] = Cell("20240102")
    /\ outcome.value.a[2]["date"] = Cell("20240101")

\* C15: where a dimension header and a metric header have the same name,
\* the flattened row has under that name the metric's entry: its value, or
\* null when the row has no value for that metric.
C15_MetricOverwritesDimension ==
    backend.t = "response" =>
        \A r \in 1..Len(result) :
            \A i \in 1..Len(backend.dimension_headers) :
                \A j \in 1..Len(backend.metric_headers) :
                    (/\ backend.dimension_headers[i] = backend.metric_headers[j]
                     /\ \A j2 \in (j + 1)..Len(backend.metric_headers) :
                           backend.metric_headers[j2] # backend.metric_headers[j]) =>
                        result[r][backend.metric_headers[j]] =
                            IF j <= Len(backend.rows[r].metric_values)
                            THEN Cell(backend.rows[r].metric_values[j])
                            ELSE PyNone

\* A dimension and a metric both called date: the row has the metric's 7.
C15_Witness ==
    /\ backend.t = "response"
    /\ backend.dimension_headers = <<"date">>
    /\ backend.metric_headers = <<"date">>
    /\ Len(result) >= 1
    /\ backend.rows[1].dimension_values = <<"20240101">>
    /\ backend.rows[1].metric_values = <<"7">>
    /\ result[1]["date"] = Cell("7")

\* C16 (as the specification states it): a call only reads the property
\* cache: no step of it changes the cache or puts another manager in the
\* place of the one that owns it, so both are after the call what they were
\* before it.
C16_CacheReadOnly == [][property_manager' = property_manager]_vars

BackendFailed ==
    /\ pc = "done"
    /\ Logged("run_report")
    /\ backend.t = "error"
    /\ backend.exc.details # "attribute"

\* The error returned names the property id as not found or not accessible.
SpecificError ==
    /\ ReturnedError("PropertyNotFound")
    /\ outcome.value.m.error.property_id = args.property_id
\* The error returned is the generic one, with the text of the exception.
GenericError ==
    /\ ReturnedError("ErrorFetching")
    /\ outcome.value.m.error.msg = backend.exc.msg

C19_SameOutcomeAfterAnotherCall ==
    (previous # NoCall /\ pc = "done") => outcome = previous.outcome

\* A 'filter' leaf on a catalog dimension with neither matcher.
MatcherlessLeaf(v) ==
    /\ v.t = "obj"
    /\ DOMAIN v.m \cap RecognizedKeys = {"filter"}
    /\ v.m["filter"].t = "obj"
    /\ HasKey(v.m["filter"], "fieldName")
    /\ ~LeafFieldBad(v.m["filter"])
    /\ ~HasKey(v.m["filter"], "stringFilter")
    /\ ~HasKey(v.m["filter"], "inListFilter")
\* A node with none of the four keys.
KeylessNode(v) == v.t = "obj" /\ DOMAIN v.m \cap RecognizedKeys = {}

RECURSIVE HasUncompilable(_)
\* The specification is, or has at some depth, such a leaf or such a node.
HasUncompilable(v) ==
    \/ MatcherlessLeaf(v)
    \/ KeylessNode(v)
    \/ /\ v.t = "obj"
       /\ \/ \E key \in {"andGroup", "orGroup"} :
                \E i \in 1..Len(ChildrenOf(v, key)) :
                    HasUncompilable(ChildrenOf(v, key)[i])
          \/ HasKey(v, "notExpression") /\ HasUncompilable(v.m["notExpression"])

\* C20: a specification that is, or has at any depth, a 'filter' leaf with a
\* catalog fieldName and neither stringFilter nor inListFilter, or a node
\* with none of the keys andGroup, orGroup, notExpression, filter, does not
\* compile: the compiler returns no tree and the call the invalid-filter
\* error.
C20_UncompilableNodesFail ==
    (Logged("build_filter_expr") /\ OneKeyed(SuppliedSpec)
       /\ HasUncompilable(SuppliedSpec)) =>
        /\ filter_expression = None
        /\ ReturnedError("InvalidFilter")
        /\ request = NoRequest

\* A leaf with no matcher beside a valid leaf in an andGroup.
C20_Witness ==
    /\ args.dimension_filter =
          Group("andGroup", <<GoodLeaf, Leaf([fieldName |-> JStr("country")])>>)
    /\ Logged("build_filter_expr")
    /\ ReturnedError("InvalidFilter")

\* C21: a call whose filter specification is a mapping ends as the call
\* whose specification was the JSON text of that mapping ended: the same
\* value returned and the same request, compiled filter included, handed to
\* the backend.
C21_TextAndMappingAgree ==
    (previous # NoCall /\ previous.t = "text" /\ pc = "done") =>
        /\ outcome = previous.outcome
        /\ request = previous.request

\* The place of each step in the order the specification gives.
StepRank(op) ==
    CASE op \in {"validate_property_id", "list_properties"} -> 1
      [] op = "normalize" -> 2
      [] op = "build_filter_expr" -> 3
      [] op = "get_oauth_credentials" -> 4
      [] op = "run_report" -> 5
Times(op) == Cardinality({i \in 1..Len(log) : log[i] = op})
ValidationErrors ==
    {"PropertyIdIsRequired", "InvalidPropertyId", "DimensionsEmpty", "MetricsEmpty",
     "FilterNotStrOrDict", "FilterJsonError", "InvalidFilter"}

\* C22: within one call the steps taken are in the order property check,
\* list normalization, filter compilation, credential acquisition, backend
\* call, flattening; the credentials are acquired and the backend is called
\* at most once, and neither in a call that ends with a validation error.
C22_StepsInOrder ==
    /\ \A i, j \in 1..Len(log) : i < j => StepRank(log[i]) <= StepRank(log[j])
    /\ Times("get_oauth_credentials") <= 1
    /\ Times("run_report") <= 1
    /\ (pc = "flatten" \/ result # <<>> \/ request # NoRequest) =>
          log[Len(log)] = "run_report"
    /\ Logged("run_report") =>
          Len(log) >= 2 /\ log[Len(log) - 1] = "get_oauth_credentials"
    /\ Logged("get_oauth_credentials") => Logged("normalize")
    /\ (\E kind \in ValidationErrors : ReturnedError(kind)) =>
          /\ ~Logged("get_oauth_credentials")
          /\ ~Logged("run_report")
          /\ request = NoRequest
          /\ result = <<>>

\* A call that took every step and returned its rows.
C22_Witness ==
    /\ pc = "done"
    /\ outcome.kind = "return"
    /\ outcome.value.t = "list"
    /\ outcome.value.a # <<>>
    /\ log = <<"validate_property_id", "normalize", "build_filter_expr",
               "get_oauth_credentials", "run_report">>

\* The key of a node that the priority andGroup, orGroup, notExpression,
\* filter picks, and the matcher of a leaf that stringFilter before
\* inListFilter picks.
PickedKey(v) ==
    IF HasKey(v, "andGroup") THEN "andGroup"
    ELSE IF HasKey(v, "orGroup") THEN "orGroup"
    ELSE IF HasKey(v, "notExpression") THEN "notExpression"
    ELSE "filter"
Without(m, keys) == [k \in DOMAIN m \ keys |-> m[k]]
SeveralKeys(v) == v.t = "obj" /\ Cardinality(DOMAIN v.m \cap RecognizedKeys) > 1
RECURSIVE Pruned(_)
\* The specification with, in every node, the content under the keys of
\* lower priority taken away.
Pruned(v) ==
    IF v.t # "obj" \/ DOMAIN v.m \cap RecognizedKeys = {} THEN v
    ELSE LET key == PickedKey(v)
             under == v.m[key]
             kept ==
                 IF key \in {"andGroup", "orGroup"}
                 THEN IF HasKey(under, "expressions") /\ under.m["expressions"].t = "arr"
                      THEN JObj([under.m EXCEPT !["expressions"] =
                                   JArr([i \in 1..Len(under.m["expressions"].a) |->
                                            Pruned(under.m["expressions"].a[i])])])
                      ELSE under
                 ELSE IF key = "notExpression" THEN Pruned(under)
                 ELSE IF HasKey(under, "stringFilter")
                      THEN JObj(Without(under.m, {"inListFilter"}))
                      ELSE under
         IN  JObj((key :> kept) @@ Without(v.m, RecognizedKeys))

\* The kind of tree the picked key of a node gives.
PickedTag(v) ==
    CASE PickedKey(v) = "andGroup" -> "and_group"
      [] PickedKey(v) = "orGroup" -> "or_group"
      [] PickedKey(v) = "notExpression" -> "not_expression"
      [] OTHER -> IF HasKey(v.m["filter"], "stringFilter")
                  THEN "string_filter" ELSE "in_list_filter"

\* C23: the compiled filter of a specification is that of the specification
\* with the content under every lower-priority key removed (andGroup before
\* orGroup before notExpression before filter, stringFilter before
\* inListFilter), and a tree, when there is one, is of the kind of the key
\* of highest priority; the call ends as the filter decides.
C23_HighestPriorityKeyDecides ==
    Logged("build_filter_expr") =>
        /\ filter_expression = BuildWithin(Pruned(SuppliedSpec), runtime.frames)
        /\ filter_expression # None => filter_expression.t = PickedTag(SuppliedSpec)
        /\ filter_expression = None <=> ReturnedError("InvalidFilter")
        /\ request # NoRequest => request.dimension_filter = filter_expression

\* A node with all four keys, valid under andGroup and invalid under filter:
\* the request carries the And tree.
C23_Witness ==
    /\ SeveralKeys(args.dimension_filter)
    /\ {"andGroup", "filter"} \subseteq DOMAIN args.dimension_filter.m
    /\ LeafFieldBad(args.dimension_filter.m["filter"])
    /\ Pruned(args.dimension_filter) # args.dimension_filter
    /\ pc = "done"
    /\ request # NoRequest
    /\ request.dimension_filter = AndNode(<<StringLeaf("country", "US", "EXACT", FALSE)>>)

\* C24: on one manager no cache entry is ever removed, and an id that
\* validate_property_id has answered True for, or that a list returned by
\* list_properties has held, is in the cache from then on: every later
\* validate_property_id of it answers True and every later
\* get_property_info of it returns the cached entry, whatever the Admin API
\* would answer.
C24_CacheOnlyGrows ==
    /\ [][DOMAIN property_manager.properties
            \subseteq DOMAIN property_manager'.properties]_vars
    /\ [](/\ KnownAfter(previous) \subseteq DOMAIN property_manager.properties
          /\ (previous # NoCall /\ previous.id \in previous.known) =>
                /\ previous.had # Absent
                /\ previous.op = "validate_property_id" => previous.ret = PyTrue
                /\ previous.op = "get_property_info" =>
                      /\ previous.ret = previous.had
                      /\ property_manager.properties[previous.id] = previous.had)

\* An id listed earlier is asked for while the Admin API does not answer
\* for it, and the cached entry is returned.
C24_Witness ==
    /\ previous # NoCall
    /\ previous.op = "get_property_info"
    /\ previous.id \in previous.known
    /\ ~previous.answers
    /\ previous.ret = PropInfo(previous.id, "summary")

\* The call ended in the filter block: after both lists were normalized and
\* before the credentials were asked for.
EndedInFilterBlock ==
    /\ pc = "done"
    /\ Logged("normalize")
    /\ parsed_dimensions # <<>>
    /\ parsed_metrics # <<>>
    /\ ~Logged("get_oauth_credentials")

\* C25: the compilation of a filter specification ends with a complete
\* filter tree or with a validation error, the invalid-filter error for a
\* mapping, whatever its nodes are and however deep it is nested for the
\* stack: never with an exception or the error of the upstream handler.
C25_TreeOrValidationError ==
    /\ (EndedInFilterBlock /\ args.dimension_filter.t = "obj") =>
          ReturnedError("InvalidFilter")
    /\ (EndedInFilterBlock /\ args.dimension_filter.t = "ftext") =>
          ReturnedError("InvalidFilter") \/ ReturnedError("FilterJsonError")
    /\ (Logged("build_filter_expr") /\ pc # "done") =>
          /\ filter_expression # None
          /\ TreeDepth(filter_expression) <= runtime.frames

=============================================================================
